---------------------------- MODULE Spec2Model ----------------------------
(***************************************************************************)
(* A model of the read-only SQLite query engine of this repository:        *)
(* the varint codec, the record decoder, the B-tree page reader, the       *)
(* table iterator, the tokenizer, the SQL parser, the planner and the      *)
(* command driver.                                                         *)
(*                                                                         *)
(* Conventions.                                                            *)
(*  - a byte is a number in 0..255, a buffer a sequence of bytes;          *)
(*  - a string is the sequence of its character codes, so that string      *)
(*    comparison, joining and trimming are computed and not assumed;       *)
(*  - an i64 produced by the varint decoder is the tuple of its 64 bits,   *)
(*    most significant first, so that shifts lose bits as in the code;     *)
(*  - a Result is a record with a field "tag": "Ok", "Err" or "Panic".     *)
(* Each subsystem has its own specification (SpecVarint, SpecRecord, ...)  *)
(* over the same variables; the variables of the other subsystems stay     *)
(* at their idle values.                                                   *)
(***************************************************************************)
EXTENDS Integers, Sequences, FiniteSets, TLC

VARIABLES
    buf,        \* varint codec: the byte slice handed to Varint::from
    varint,     \* varint codec: what Varint::from returned for buf
    payload,    \* record decoder: the payload handed to values()
    decoded,    \* record decoder: what values() returned for payload
    page_number,\* page reader: the page number handed to read_page
    page,       \* page reader: the bytes of that page in the file
    b_tree_page,\* page reader: what read_page returned
    page_cells, \* page reader: what BTreePage::cells returned
    db,         \* table iterator: the parsed pages of the file, by page number
    root_page,  \* table iterator: the page the enumeration starts from
    records,    \* table iterator: the Records struct
    yielded,    \* table iterator: the rows next() has returned so far
    status,     \* table iterator: "running", "done" (next returned None) or "panic"
    page_reads, \* table iterator: the page numbers read_page was called with
    end_calls,  \* table iterator: calls of next() made after it returned None
    command,    \* driver: the second command line argument
    page_size,  \* driver: the page size PageReader::new read from the file header
    schema,     \* driver: what Schema::new returned
    sql_statement, \* driver: what SqlStatement::new returned for command
    stdout,     \* driver: the lines printed so far
    written,    \* driver: for each row line, the values write! put into it
    pc,         \* driver: where main is: "start", "loaded", "rows", "exit_ok", "exit_err", "panic"
    sql_where,  \* planner: what SqlWhereClause::new of sql_handler.rs returned
    index_root, \* planner: the root page of the index the plan uses
    mapped_where, \* planner: what SqlWhereClause::map returned
    scanned,    \* planner: the rows of the full scan followed by the filter
    error,      \* driver: the error main returned, "none" while there is none
    tokenizer,  \* tokenizer: the Tokenizer struct, its input and its index
    tokens,     \* tokenizer: what the calls of next() returned so far; the latest call in SpecCursor
    sql_words,  \* SQL parser: the words of the SQL string, joined by blanks
    parsed,     \* SQL parser: what SqlStatement::new returned for the string
    mapped_statement, \* SQL parser: what SqlStatement::map returned
    map_clause,  \* WHERE mapping: the SqlWhereClause map is called on
    map_index,   \* WHERE mapping: the index_schema argument of map
    map_result,  \* WHERE mapping: what SqlWhereClause::map returned
    serial_type, \* column decoder: the serial type handed to RecordFormat::new
    column_bytes, \* column decoder: the payload slice handed to RecordFormat::new
    record_format, \* column decoder: what RecordFormat::new returned
    create_record, \* CREATE parser: the SchemaRecord whose sql is parsed
    names_handler, \* CREATE parser: what table_column_names of record_handler.rs returned
    names_main,  \* CREATE parser: what column_names of main.rs returned
    page_num,    \* page reader: the page number read_page is called with
    reader_page_size, \* page reader: the page_size field of the PageReader
    seek_handler, \* page reader: the offset read_page of tree_handler.rs seeks to
    seek_main    \* page reader: the offset read_page of main.rs seeks to

varintVars == <<buf, varint>>
recordVars == <<payload, decoded>>
pageVars == <<page_number, page, b_tree_page, page_cells>>
tableVars == <<db, root_page, records, yielded, status, page_reads, end_calls>>
driverVars == <<command, page_size, schema, sql_statement, stdout, written, pc, error>>
indexVars == <<sql_where, index_root, mapped_where, scanned>>
parserVars == <<tokenizer, tokens, sql_words, parsed, mapped_statement>>
mapVars == <<map_clause, map_index, map_result>>
formatVars == <<serial_type, column_bytes, record_format>>
columnsVars == <<create_record, names_handler, names_main>>
seekVars == <<page_num, reader_page_size, seek_handler, seek_main>>
unitVars == <<map_clause, map_index, map_result, serial_type, column_bytes, record_format,
              create_record, names_handler, names_main,
              page_num, reader_page_size, seek_handler, seek_main>>

vars == <<buf, varint, payload, decoded, page_number, page, b_tree_page, page_cells,
          db, root_page, records, yielded, status, page_reads, end_calls,
          command, page_size, schema, sql_statement, stdout, written, pc,
          sql_where, index_root, mapped_where, scanned, error,
          tokenizer, tokens, sql_words, parsed, mapped_statement,
          map_clause, map_index, map_result, serial_type, column_bytes, record_format,
          create_record, names_handler, names_main,
          page_num, reader_page_size, seek_handler, seek_main>>

None == [tag |-> "None"]

\* the values the variables of a subsystem keep while another one runs
IdleVarint == buf = <<>> /\ varint = None
IdleRecord == payload = <<>> /\ decoded = None
IdlePage == page_number = 0 /\ page = <<>> /\ b_tree_page = None /\ page_cells = None
IdleTable ==
    /\ db = <<>> /\ root_page = 0 /\ records = None /\ yielded = <<>>
    /\ status = "idle" /\ page_reads = <<>> /\ end_calls = 0
IdleDriver ==
    /\ command = <<>> /\ page_size = 0 /\ schema = None /\ sql_statement = None
    /\ stdout = <<>> /\ written = <<>> /\ pc = "idle" /\ error = "none"
IdleIndex == sql_where = None /\ index_root = 0 /\ mapped_where = None /\ scanned = <<>>
IdleParser ==
    /\ tokenizer = None /\ tokens = <<>>
    /\ sql_words = <<>> /\ parsed = None /\ mapped_statement = None
IdleMap == map_clause = None /\ map_index = None /\ map_result = None
IdleFormat == serial_type = 0 /\ column_bytes = <<>> /\ record_format = None
IdleColumns == create_record = None /\ names_handler = None /\ names_main = None
IdleSeek ==
    /\ page_num = 0 /\ reader_page_size = 0 /\ seek_handler = None /\ seek_main = None
IdleUnits == IdleMap /\ IdleFormat /\ IdleColumns /\ IdleSeek

(***************************************************************************)
(* Bit helpers                                                             *)
(***************************************************************************)
RECURSIVE Pow2(_)
Pow2(n) == IF n = 0 THEN 1 ELSE 2 * Pow2(n - 1)

\* the low n bits of byte b, most significant first
LowBits(b, n) == [i \in 1..n |-> (b \div Pow2(n - i)) % 2]

Zeros(n) == [i \in 1..n |-> 0]

\* the number a bit tuple stands for, read as unsigned (leading zeros cost nothing)
RECURSIVE BitsToNat(_)
BitsToNat(bits) ==
    IF bits = <<>> THEN 0
    ELSE 2 * BitsToNat(SubSeq(bits, 1, Len(bits) - 1)) + bits[Len(bits)]

HighBit(b) == b \div 128

(***************************************************************************)
(* Varint::from  (record_handler.rs 176-202, main.rs 255-281)              *)
(***************************************************************************)
\* result = (result << 7) | (byte & 0x7f) on an i64
ShiftOr7(result, byte) == SubSeq(result, 8, 64) \o LowBits(byte % 128, 7)

\* the for loop over the bytes of buf: i is the index of the next byte
RECURSIVE VarintLoop(_, _, _, _)
VarintLoop(b, i, result, size) ==
    IF i > Len(b) THEN [value |-> result, size |-> size]
    ELSE LET r == ShiftOr7(result, b[i])
         IN  IF HighBit(b[i]) = 0
             THEN [value |-> r, size |-> size + 1]
             ELSE VarintLoop(b, i + 1, r, size + 1)

\* Varint::from: panics on an empty slice, else the varint and the rest of the slice
VarintFrom(b) ==
    IF b = <<>> THEN [tag |-> "Panic"]
    ELSE LET v == VarintLoop(b, 1, Zeros(64), 0)
         IN  [tag |-> "Ok", value |-> v.value, size |-> v.size,
              rest |-> SubSeq(b, v.size + 1, Len(b))]

(***************************************************************************)
(* RecordFormat::new  (record_handler.rs 220-298, main.rs 61-139)          *)
(***************************************************************************)
\* an i64 as a number; the model never feeds the decoder a varint whose value
\* leaves the range TLC computes in
I64ToInt(bits) ==
    IF bits[1] = 0 THEN BitsToNat(bits)
    ELSE -(BitsToNat([i \in 1..64 |-> 1 - bits[i]]) + 1)

RECURSIVE BeUnsigned(_)
BeUnsigned(bytes) ==
    IF bytes = <<>> THEN 0
    ELSE 256 * BeUnsigned(SubSeq(bytes, 1, Len(bytes) - 1)) + bytes[Len(bytes)]

\* iN::from_be_bytes: big-endian two's complement
BeSigned(bytes) ==
    IF bytes[1] < 128 THEN BeUnsigned(bytes)
    ELSE -(BeUnsigned([i \in 1..Len(bytes) |-> 255 - bytes[i]]) + 1)

\* String::from_utf8_lossy on bytes that hold no multi-byte sequence: an ASCII
\* byte is its own character, any other byte becomes U+FFFD
Utf8Lossy(bytes) == [i \in 1..Len(bytes) |-> IF bytes[i] < 128 THEN bytes[i] ELSE 65533]

Drop(s, n) == SubSeq(s, n + 1, Len(s))

\* a RecordFormat value: its variant, with the number (i) or the bytes or
\* characters (b) the variant carries
RecordFormat(kind, i, b) == [kind |-> kind, i |-> i, b |-> b]

RfOk(kind, i, b, rest) == [tag |-> "Ok", value |-> RecordFormat(kind, i, b), rest |-> rest]

\* an integer column of n stored bytes, zero-padded on the left by pad;
\* indexing past the slice panics
RfInt(kind, p, n, pad) ==
    IF Len(p) < n THEN [tag |-> "Panic"]
    ELSE RfOk(kind, BeSigned(pad \o SubSeq(p, 1, n)), <<>>, Drop(p, n))

\* RecordFormat::new(payload, value): value is the serial type
RecordFormatNew(p, value) ==
    CASE value = 0 -> RfOk("NULL", 0, <<>>, p)
      [] value = 1 -> RfInt("Integer8", p, 1, <<>>)
      [] value = 2 -> RfInt("Integer16", p, 2, <<>>)
      [] value = 3 -> RfInt("Integer24", p, 3, <<0>>)
      [] value = 4 -> RfInt("Integer32", p, 4, <<>>)
      [] value = 5 -> RfInt("Integer48", p, 6, <<0, 0>>)
      [] value = 6 -> RfInt("Integer64", p, 8, <<>>)
      [] value = 7 -> IF Len(p) < 8 THEN [tag |-> "Panic"]
                      ELSE RfOk("Float64", 0, SubSeq(p, 1, 8), Drop(p, 8))
      [] value = 8 -> RfOk("Integer0", 0, <<>>, p)
      [] value = 9 -> RfOk("Integer1", 1, <<>>, p)
      [] value \in {10, 11} -> [tag |-> "Err"]
      [] OTHER ->
            \* a negative serial type is odd for % and its size, cast to usize,
            \* is past every slice
            IF value < 0 THEN [tag |-> "Panic"]
            ELSE IF value % 2 = 0
            THEN LET size == (value - 12) \div 2
                 IN  IF size > Len(p) THEN [tag |-> "Panic"]
                     ELSE RfOk("Blob", 0, SubSeq(p, 1, size), Drop(p, size))
            ELSE LET size == (value - 13) \div 2
                 IN  IF size > Len(p) THEN [tag |-> "Panic"]
                     ELSE RfOk("String", 0, Utf8Lossy(SubSeq(p, 1, size)), Drop(p, size))

(***************************************************************************)
(* values  (tree_handler.rs 81-104; BTreePage::read_values, main.rs 456-479)*)
(***************************************************************************)
\* while header_size > 0: read the next serial-type varint
RECURSIVE ReadHeader(_, _, _)
ReadHeader(p, header_size, header) ==
    IF header_size > 0
    THEN LET v == VarintFrom(p)
         IN  IF v.tag = "Panic" THEN [tag |-> "Panic"]
             ELSE ReadHeader(v.rest, header_size - v.size, Append(header, I64ToInt(v.value)))
    ELSE [tag |-> "Ok", header |-> header, rest |-> p]

\* for v in &header: decode one column
RECURSIVE ReadBody(_, _, _, _)
ReadBody(p, header, i, vals) ==
    IF i > Len(header) THEN [tag |-> "Ok", values |-> vals, rest |-> p]
    ELSE LET r == RecordFormatNew(p, header[i])
         IN  IF r.tag # "Ok" THEN [tag |-> r.tag]
             ELSE ReadBody(r.rest, header, i + 1, Append(vals, r.value))

\* values(payload); "rest" is the local slice `payload` when the function returns
Values(p) ==
    LET hs == VarintFrom(p)
    IN  IF hs.tag = "Panic" THEN [tag |-> "Panic"]
        ELSE LET h == ReadHeader(hs.rest, I64ToInt(hs.value) - hs.size, <<>>)
             IN  IF h.tag = "Panic" THEN [tag |-> "Panic"]
                 ELSE ReadBody(h.rest, h.header, 1, <<>>)

(***************************************************************************)
(* SpecRecord: values() applied to payloads of a first byte (the declared  *)
(* header length) and up to MaxRecLen further bytes.                       *)
(***************************************************************************)
MaxRecLen == 4

HeaderLens == {0, 1, 2, 3}
\* serial types NULL, i8, i16, constant 1, reserved, empty TEXT, 1-byte BLOB,
\* and two bytes with the high bit set
RecBytes == {0, 1, 2, 9, 10, 13, 14, 128, 129}

InitRecord ==
    /\ IdleUnits
    /\ IdleVarint /\ IdlePage /\ IdleTable /\ IdleDriver /\ IdleIndex /\ IdleParser
    /\ \E h \in HeaderLens :
         \E n \in 0..MaxRecLen :
           \E body \in [1..n -> RecBytes] :
             payload = <<h>> \o body
    /\ decoded = None

DecodeRecord ==
    /\ decoded = None
    /\ decoded' = Values(payload)
    /\ UNCHANGED <<unitVars, parserVars, payload, varintVars, pageVars, tableVars, driverVars, indexVars>>

NextRecord == DecodeRecord

SpecRecord == InitRecord /\ [][NextRecord]_vars

\* the stored size of a decoded column, by the serial-type table
ColumnSize(val) ==
    CASE val.kind \in {"NULL", "Integer0", "Integer1"} -> 0
      [] val.kind = "Integer8" -> 1
      [] val.kind = "Integer16" -> 2
      [] val.kind = "Integer24" -> 3
      [] val.kind = "Integer32" -> 4
      [] val.kind = "Integer48" -> 6
      [] val.kind \in {"Integer64", "Float64"} -> 8
      [] val.kind \in {"Blob", "String"} -> Len(val.b)

RECURSIVE SumSizes(_)
SumSizes(vals) == IF vals = <<>> THEN 0 ELSE ColumnSize(Head(vals)) + SumSizes(Tail(vals))

\* the header length the record declares: its first varint
DeclaredHeaderLen(p) == I64ToInt(VarintFrom(p).value)

\* C9: for a record buffer the decoder accepts, the bytes consumed by all
\* decoded columns equal the payload length minus the declared header length
\* (a buffer with unread trailing bytes is not accepted).
C9_RecordSelfConsistent ==
    (decoded # None /\ decoded.tag = "Ok") =>
        SumSizes(decoded.values) = Len(payload) - DeclaredHeaderLen(payload)

\* the index just after the varint that starts at index i of p, of which k
\* bytes are already passed; 0 when p ends inside the varint
RECURSIVE VarintEnd(_, _, _)
VarintEnd(p, i, k) ==
    IF i > Len(p) THEN 0
    ELSE IF k = 8 \/ p[i] < 128 THEN i + 1
    ELSE VarintEnd(p, i + 1, k + 1)

\* the serial-type varints of a header of declared length H, read from index
\* i on: "exact" when one of them ends at byte H, "overrun" when one ends
\* past it (or H is already behind i), "truncated" when p ends first
RECURSIVE HeaderWalk(_, _, _)
HeaderWalk(p, i, H) ==
    IF i = H + 1 THEN "exact"
    ELSE IF i > H + 1 THEN "overrun"
    ELSE IF VarintEnd(p, i, 0) = 0 THEN "truncated"
    ELSE HeaderWalk(p, VarintEnd(p, i, 0), H)

HeaderShape(p) == HeaderWalk(p, VarintEnd(p, 1, 0), DeclaredHeaderLen(p))

\* C15: when the serial-type varints of the header do not end exactly at the
\* declared header length H (one straddles byte H, or H is smaller than the
\* length of its own varint), the record decoder returns an error, never Ok.
C15_HeaderOverrunRejected ==
    (decoded # None /\ HeaderShape(payload) = "overrun") => decoded.tag = "Err"

\* the serial types of a header that ends exactly at byte H, from index i on
RECURSIVE SerialTypes(_, _, _)
SerialTypes(p, i, H) ==
    IF i > H THEN <<>>
    ELSE <<I64ToInt(VarintFrom(SubSeq(p, i, Len(p))).value)>>
         \o SerialTypes(p, VarintEnd(p, i, 0), H)

\* the stored size of a column of serial type t, by the serial-type table
SerialSize(t) ==
    CASE t \in {0, 8, 9} -> 0
      [] t \in {1, 2, 3, 4} -> t
      [] t = 5 -> 6
      [] t \in {6, 7} -> 8
      [] t >= 12 /\ t % 2 = 0 -> (t - 12) \div 2
      [] t >= 13 /\ t % 2 = 1 -> (t - 13) \div 2

RECURSIVE BodySize(_)
BodySize(types) == IF types = <<>> THEN 0 ELSE SerialSize(Head(types)) + BodySize(Tail(types))

\* a well-formed header without reserved serial types whose columns need more
\* bytes than follow the header
PayloadShort(p) ==
    /\ HeaderShape(p) = "exact"
    /\ LET types == SerialTypes(p, VarintEnd(p, 1, 0), DeclaredHeaderLen(p))
       IN  /\ \A k \in 1..Len(types) : types[k] \notin {10, 11}
           /\ BodySize(types) > Len(p) - DeclaredHeaderLen(p)

\* C16: when the serial types of the header need more payload bytes than
\* remain, the record decoder returns an error value: it neither panics nor
\* returns values.
C16_ShortPayloadIsError ==
    (decoded # None /\ PayloadShort(payload)) => decoded.tag = "Err"

(***************************************************************************)
(* SpecVarint: Varint::from applied to slices that start with a valid      *)
(* varint of length 1..9, followed by up to MaxTrail further bytes.        *)
(***************************************************************************)
MaxTrail == 1

ContBytes == {128, 255}          \* bytes with the high bit set
EndBytes == {0, 1, 127}          \* bytes with the high bit clear
NinthBytes == {0, 1, 128, 255}   \* a ninth byte may have any high bit
TrailBytes == {0, 129}

Trails == UNION {[1..n -> TrailBytes] : n \in 0..MaxTrail}

InitVarint ==
    /\ IdleUnits
    /\ IdleRecord /\ IdlePage /\ IdleTable /\ IdleDriver /\ IdleIndex /\ IdleParser
    /\ \E L \in 1..9 :
         \E hi \in [1..(L - 1) -> ContBytes] :
           \E last \in (IF L = 9 THEN NinthBytes ELSE EndBytes) :
             \E trail \in Trails :
               buf = hi \o <<last>> \o trail
    /\ varint = None

DecodeVarint ==
    /\ varint = None
    /\ varint' = VarintFrom(buf)
    /\ UNCHANGED <<unitVars, parserVars, buf, recordVars, pageVars, tableVars, driverVars, indexVars>>

NextVarint == DecodeVarint

SpecVarint == InitVarint /\ [][NextVarint]_vars

\* the length of the valid varint at the start of b: the first of bytes 1..8
\* whose high bit is clear ends it, else the ninth byte does
RECURSIVE CanonicalLen(_, _)
CanonicalLen(b, i) ==
    IF i = 9 \/ HighBit(b[i]) = 0 THEN i ELSE CanonicalLen(b, i + 1)

RECURSIVE Groups7(_, _)
Groups7(b, n) == IF n = 0 THEN <<>> ELSE Groups7(b, n - 1) \o LowBits(b[n] % 128, 7)

\* the canonical 64-bit value of the valid varint of length L at the start of b
CanonicalValue(b, L) ==
    IF L = 9 THEN Groups7(b, 8) \o LowBits(b[9], 8)
    ELSE Zeros(64 - 7 * L) \o Groups7(b, L)

\* C8: for a valid varint of length L in 1..9 at the start of the slice,
\* Varint::from returns consumed length L and the canonical 64-bit value
\* (a ninth byte contributes all 8 bits and ends the varint).
C8_VarintCanonical ==
    varint # None =>
        /\ varint.tag = "Ok"
        /\ varint.size = CanonicalLen(buf, 1)
        /\ varint.value = CanonicalValue(buf, CanonicalLen(buf, 1))

(***************************************************************************)
(* BTreePage::read_header  (tree_handler.rs 206-246)                       *)
(***************************************************************************)
\* page[a..b] of a Rust slice (0-based, b exclusive); out of range panics
SliceOk(s, a, b) == a <= b /\ b <= Len(s)
Slice(s, a, b) == SubSeq(s, a + 1, b)

PageTypeOf(byte) ==
    CASE byte = 2 -> "InteriorIndexPage"
      [] byte = 5 -> "InteriorTablePage"
      [] byte = 10 -> "LeafIndexPage"
      [] byte = 13 -> "LeafTablePage"
      [] OTHER -> "Invalid"

IsInterior(page_type) == page_type \in {"InteriorIndexPage", "InteriorTablePage"}

\* u16 - u16: an overflow panics in a debug build and wraps in a release build
SubU16(a, b, build) ==
    IF a >= b THEN [tag |-> "Ok", v |-> a - b]
    ELSE IF build = "debug" THEN [tag |-> "Panic"]
    ELSE [tag |-> "Ok", v |-> a - b + 65536]

\* overlapping windows of two bytes, as slice::windows(2) gives them
ChunksWindows(s) == [i \in 1..(IF Len(s) < 2 THEN 0 ELSE Len(s) - 1) |-> SubSeq(s, i, i + 1)]

\* for chunk in page[header_len..cell_pointer_size].chunks(2): the chunks
Chunks2(s) == [i \in 1..((Len(s) + 1) \div 2) |-> SubSeq(s, 2 * i - 1, IF 2 * i <= Len(s) THEN 2 * i ELSE Len(s))]

\* the loop body: push(u16::from_be_bytes([chunk[0], chunk[1]]) - cell_content_area)
RECURSIVE CellPointers(_, _, _, _, _)
CellPointers(chunks, i, cell_content_area, build, acc) ==
    IF i > Len(chunks) THEN [tag |-> "Ok", cell_pointers |-> acc]
    ELSE IF Len(chunks[i]) < 2 THEN [tag |-> "Panic"]
    ELSE LET d == SubU16(BeUnsigned(chunks[i]), cell_content_area, build)
         IN  IF d.tag = "Panic" THEN [tag |-> "Panic"]
             ELSE CellPointers(chunks, i + 1, cell_content_area, build, Append(acc, d.v))

\* read_header(page): page is the slice that starts at the B-tree header
ReadPageHeader(p, build) ==
    LET page_type == PageTypeOf(p[1])
        num_cells == BeUnsigned(Slice(p, 3, 5))
        cell_content_area == BeUnsigned(Slice(p, 5, 7))
        header_len == IF IsInterior(page_type) THEN 12 ELSE 8
        cell_pointer_size == num_cells * 2 + header_len
    IN  IF page_type = "Invalid" THEN [tag |-> "Err"]
        ELSE IF ~SliceOk(p, header_len, cell_pointer_size) THEN [tag |-> "Panic"]
        ELSE LET ptrs == CellPointers(Chunks2(Slice(p, header_len, cell_pointer_size)),
                                       1, cell_content_area, build, <<>>)
             IN  IF ptrs.tag = "Panic" THEN [tag |-> "Panic"]
                 ELSE IF cell_content_area > Len(p) THEN [tag |-> "Panic"]
                 ELSE [tag |-> "Ok",
                       page_type |-> page_type,
                       num_cells |-> num_cells,
                       cell_content_area |-> cell_content_area,
                       right_most_pointer |->
                           IF IsInterior(page_type)
                           THEN [tag |-> "Some", v |-> BeUnsigned(Slice(p, 8, 12))]
                           ELSE None,
                       cell_pointers |-> ptrs.cell_pointers,
                       cell_content |-> Drop(p, cell_content_area)]

\* BTreePage::new and BTreePage::with_offset_header (tree_handler.rs 138-149)
BTreePageNew(p, build) == ReadPageHeader(p, build)

BTreePageWithOffsetHeader(p, offset, build) ==
    LET h == ReadPageHeader(Drop(p, offset), build)
    IN  IF h.tag # "Ok" THEN h
        ELSE IF h.cell_content_area > Len(p) THEN [tag |-> "Panic"]
        ELSE [h EXCEPT !.cell_content = Drop(p, h.cell_content_area)]

\* PageReader::read_page (tree_handler.rs 26-38), on the bytes the file holds
DbHeaderLen == 100

ReadPage(n, p, build) ==
    IF n = 1 THEN BTreePageWithOffsetHeader(p, DbHeaderLen, build) ELSE BTreePageNew(p, build)

(***************************************************************************)
(* BTreePage::cells  (tree_handler.rs 151-204)                             *)
(***************************************************************************)
\* page_slice[..payload_size as usize].to_vec(); a negative size is huge as usize
TakePayload(s, payload_size) ==
    IF payload_size < 0 \/ payload_size > Len(s) THEN [tag |-> "Panic"]
    ELSE [tag |-> "Ok", payload |-> SubSeq(s, 1, payload_size)]

InteriorIndexCell(page_slice) ==
    IF Len(page_slice) < 4 THEN [tag |-> "Panic"]
    ELSE LET payload_size == VarintFrom(Drop(page_slice, 4))
         IN  IF payload_size.tag = "Panic" THEN [tag |-> "Panic"]
             ELSE LET pl == TakePayload(payload_size.rest, I64ToInt(payload_size.value))
                  IN  IF pl.tag = "Panic" THEN [tag |-> "Panic"]
                      ELSE [tag |-> "Ok",
                            cell |-> [variant |-> "InteriorIndexCell",
                                      left_child_page |-> BeUnsigned(Slice(page_slice, 0, 4)),
                                      payload |-> pl.payload]]

InteriorTableCell(page_slice) ==
    IF Len(page_slice) < 4 THEN [tag |-> "Panic"]
    ELSE LET row_id == VarintFrom(Drop(page_slice, 4))
         IN  IF row_id.tag = "Panic" THEN [tag |-> "Panic"]
             ELSE [tag |-> "Ok",
                   cell |-> [variant |-> "InteriorTableCell",
                             left_child_page |-> BeUnsigned(Slice(page_slice, 0, 4)),
                             row_id |-> [value |-> I64ToInt(row_id.value), size |-> row_id.size]]]

LeafTableCell(page_slice) ==
    LET payload_size == VarintFrom(page_slice)
    IN  IF payload_size.tag = "Panic" THEN [tag |-> "Panic"]
        ELSE LET row_id == VarintFrom(payload_size.rest)
             IN  IF row_id.tag = "Panic" THEN [tag |-> "Panic"]
                 ELSE LET pl == TakePayload(row_id.rest, I64ToInt(payload_size.value))
                      IN  IF pl.tag = "Panic" THEN [tag |-> "Panic"]
                          ELSE [tag |-> "Ok",
                                cell |-> [variant |-> "LeafTableCell",
                                          row_id |-> [value |-> I64ToInt(row_id.value),
                                                      size |-> row_id.size],
                                          payload |-> pl.payload]]

LeafIndexCell(page_slice) ==
    LET payload_size == VarintFrom(page_slice)
    IN  IF payload_size.tag = "Panic" THEN [tag |-> "Panic"]
        ELSE LET pl == TakePayload(payload_size.rest, I64ToInt(payload_size.value))
             IN  IF pl.tag = "Panic" THEN [tag |-> "Panic"]
                 ELSE [tag |-> "Ok", cell |-> [variant |-> "LeafIndexCell", payload |-> pl.payload]]

\* the match on self.page_type
CellOfType(page_type, page_slice) ==
    CASE page_type = "InteriorIndexPage" -> InteriorIndexCell(page_slice)
      [] page_type = "InteriorTablePage" -> InteriorTableCell(page_slice)
      [] page_type = "LeafTablePage" -> LeafTableCell(page_slice)
      [] page_type = "LeafIndexPage" -> LeafIndexCell(page_slice)

\* for cell_pointer in &self.cell_pointers
RECURSIVE CellsLoop(_, _, _)
CellsLoop(bp, i, acc) ==
    IF i > Len(bp.cell_pointers) THEN [tag |-> "Ok", cells |-> acc]
    ELSE IF bp.cell_pointers[i] > Len(bp.cell_content) THEN [tag |-> "Panic"]
    ELSE LET c == CellOfType(bp.page_type, Drop(bp.cell_content, bp.cell_pointers[i]))
         IN  IF c.tag = "Panic" THEN [tag |-> "Panic"]
             ELSE CellsLoop(bp, i + 1, Append(acc, c.cell))

Cells(bp) == CellsLoop(bp, 1, <<>>)

(***************************************************************************)
(* SpecPage: read_page and cells() on page 1 (B-tree header at offset 100) *)
(* and on page 2, for pages built of a header, MaxCells pointer slots and  *)
(* ContentLen content bytes; the content follows the pointer slots, or     *)
(* lies further back, within the last DbHeaderLen bytes of the page.       *)
(***************************************************************************)
MaxCells == 2
ContentLen == 5

PageTypeBytes == {2, 5, 10, 13, 0}
ContentBytes == {0, 1}
Builds == {"debug", "release"}
\* cell pointers, as offsets into the content bytes
PtrOffsets == {0, 2}
\* the unused bytes between the pointer slots and the content
ContentGaps == {0, DbHeaderLen}

U16Bytes(n) == <<n \div 256, n % 256>>

\* where the content bytes start in a page whose B-tree header is at offset
\* base and whose content follows gap unused bytes
ContentStart(base, gap) == base + 12 + 2 * MaxCells + gap

PageSize == 2 * DbHeaderLen + 12 + 2 * MaxCells + ContentLen

InitPage ==
    /\ IdleUnits
    /\ IdleVarint /\ IdleRecord /\ IdleTable /\ IdleDriver /\ IdleIndex /\ IdleParser
    /\ page_number \in {1, 2}
    /\ \E t \in PageTypeBytes :
         \E n \in 0..MaxCells :
           \E ptrs \in [1..MaxCells -> PtrOffsets] :
             \E cca \in {0, 2} :
               \E gap \in ContentGaps :
                 \E content \in [1..ContentLen -> ContentBytes] :
                   LET base == IF page_number = 1 THEN DbHeaderLen ELSE 0
                       start == ContentStart(base, gap)
                       ptrbytes == [i \in 1..(2 * MaxCells) |->
                                      U16Bytes(start + ptrs[(i + 1) \div 2])[2 - (i % 2)]]
                       head == <<t, 0, 0>> \o U16Bytes(n)
                               \o U16Bytes(IF cca = 0 THEN 0 ELSE start + cca - 1) \o <<0>>
                               \o <<0, 0, 0, 3>> \o ptrbytes
                   IN  page = Zeros(base) \o head \o Zeros(gap) \o content
                              \o Zeros(2 * DbHeaderLen - base - gap)
    /\ b_tree_page = None
    /\ page_cells = None

ReadPageStep ==
    /\ b_tree_page = None
    /\ \E build \in Builds : b_tree_page' = ReadPage(page_number, page, build)
    /\ UNCHANGED <<unitVars, parserVars, page_number, page, page_cells, varintVars, recordVars, tableVars, driverVars, indexVars>>

CellsStep ==
    /\ b_tree_page # None /\ b_tree_page.tag = "Ok"
    /\ page_cells = None
    /\ page_cells' = Cells(b_tree_page)
    /\ UNCHANGED <<unitVars, parserVars, page_number, page, b_tree_page, varintVars, recordVars, tableVars, driverVars, indexVars>>

NextPage == ReadPageStep \/ CellsStep

SpecPage == InitPage /\ [][NextPage]_vars

CellVariantOf(page_type) ==
    CASE page_type = "InteriorIndexPage" -> "InteriorIndexCell"
      [] page_type = "InteriorTablePage" -> "InteriorTableCell"
      [] page_type = "LeafTablePage" -> "LeafTableCell"
      [] page_type = "LeafIndexPage" -> "LeafIndexCell"

\* C10: for an accepted page of any of the four page types, the cell pointer
\* array has exactly cell_count entries, and cells(), when it returns, yields
\* exactly cell_count cells, each of the variant that matches the page type.
C10_PageCellCount ==
    (b_tree_page # None /\ b_tree_page.tag = "Ok") =>
        /\ Len(b_tree_page.cell_pointers) = b_tree_page.num_cells
        /\ (page_cells # None /\ page_cells.tag = "Ok") =>
              /\ Len(page_cells.cells) = b_tree_page.num_cells
              /\ \A i \in 1..Len(page_cells.cells) :
                    page_cells.cells[i].variant = CellVariantOf(b_tree_page.page_type)

\* an interior page and a leaf page, each with two cells, were read in full
C10_Witness ==
    /\ b_tree_page # None /\ b_tree_page.tag = "Ok"
    /\ b_tree_page.num_cells = 2
    /\ page_number = 1
    /\ b_tree_page.page_type = "InteriorIndexPage"
    /\ page_cells # None /\ page_cells.tag = "Ok"

(***************************************************************************)
(* The table iterator of main.rs: Record::new (214-245), Records::new      *)
(* (313-335) and Records::next (360-405), over pages as BTreePage::new     *)
(* (407-413) parses them: a page type, its cells and right_most_pointer.   *)
(***************************************************************************)
Some(x) == [tag |-> "Some", v |-> x]

Null == RecordFormat("NULL", 0, <<>>)
Integer64(n) == RecordFormat("Integer64", n, <<>>)

\* the alias rule without its test on the column: a NULL anywhere is replaced
RecordNewValueAnyNull(i, value, row_id) == IF value = Null THEN Integer64(row_id) ELSE value

\* the loop body of Record::new: the value stored for column i (0-based)
RecordNewValue(i, value, row_id) ==
    IF i = 0 /\ value = Null THEN Integer64(row_id) ELSE value

\* Record::new(b_tree_cell, column_names)
RecordNew(cell, column_names) ==
    IF cell.variant # "LeafTableCell" THEN [tag |-> "Err"]
    ELSE IF column_names # None /\ Len(cell.values) > Len(column_names.v) THEN [tag |-> "Panic"]
    ELSE [tag |-> "Ok",
          record |-> [row_id |-> cell.row_id,
                      columns |-> [i \in 1..Len(cell.values) |->
                          [name |-> IF column_names # None THEN column_names.v[i] ELSE <<>>,
                           value |-> RecordNewValue(i - 1, cell.values[i], cell.row_id)]]]]

\* Records::new(page, page_reader)
RecordsNew(b_page) ==
    [cell_iter |-> IF b_page.page_type = "InteriorTablePage" THEN Some(b_page.cells) ELSE None,
     record_iter |-> IF b_page.page_type = "LeafTablePage" THEN Some(b_page.cells) ELSE None,
     sql_where_clause |-> None,
     flag |-> FALSE,
     column_names |-> None]

\* PageReader::read_page followed by BTreePage::new, both unwrapped: a page
\* number outside the file fails
PageExists(pages, n) == n \in DOMAIN pages

StrNULL == <<78, 85, 76, 76>>    \* "NULL"

\* impl PartialEq<Token> for RecordFormat (main.rs 141-168)
RecordFormatEqToken(value, token) ==
    CASE token.type = "Number" ->
            /\ value.kind \in {"Integer8", "Integer16", "Integer24", "Integer32",
                                "Integer48", "Integer64"}
            /\ value.i = token.n
      [] token.type = "Text" -> value.kind = "NULL" /\ token.s = StrNULL
      [] token.type = "String" -> value.kind = "String" /\ value.b = token.s
      [] OTHER -> FALSE

\* record.columns.iter().find(|c| c.name == column): the index of the first, or 0
FindColumn(columns, name) ==
    IF \E i \in 1..Len(columns) : columns[i].name = name
    THEN CHOOSE i \in 1..Len(columns) :
            /\ columns[i].name = name
            /\ \A j \in 1..(i - 1) : columns[j].name # name
    ELSE 0

\* SqlWhereClause::matches (main.rs 803-811) over SqlWhereColumn::matches
\* (741-747): "true", "false", or "panic" when unwrap meets a missing column
RECURSIVE WhereMatches(_, _, _)
WhereMatches(columns, i, record) ==
    IF i > Len(columns) THEN "true"
    ELSE LET k == FindColumn(record.columns, columns[i].column)
         IN  IF k = 0 THEN "panic"
             ELSE IF ~RecordFormatEqToken(record.columns[k].value, columns[i].value) THEN "false"
             ELSE WhereMatches(columns, i + 1, record)

\* Records::next: one call, to its return or panic; reads collects the page
\* numbers read on the way
RECURSIVE RecordsNext(_, _, _)
RecordsNext(pages, rs, reads) ==
    IF rs.flag THEN [state |-> rs, result |-> None, reads |-> reads]
    ELSE IF rs.record_iter # None /\ rs.record_iter.v # <<>>
    THEN LET record == RecordNew(Head(rs.record_iter.v), rs.column_names)
             rs1 == [rs EXCEPT !.record_iter = Some(Tail(rs.record_iter.v))]
         IN  IF record.tag # "Ok" THEN [state |-> rs1, result |-> [tag |-> "Panic"], reads |-> reads]
             ELSE LET m == IF rs.sql_where_clause = None THEN "true"
                           ELSE WhereMatches(rs.sql_where_clause.v.columns, 1, record.record)
                  IN  IF m = "panic"
                      THEN [state |-> rs1, result |-> [tag |-> "Panic"], reads |-> reads]
                      ELSE IF m = "false" THEN RecordsNext(pages, rs1, reads)
                      ELSE [state |-> rs1, result |-> Some(record.record), reads |-> reads]
    ELSE IF rs.cell_iter # None /\ rs.cell_iter.v # <<>>
    THEN LET cell == Head(rs.cell_iter.v)
             rs1 == [rs EXCEPT !.cell_iter = Some(Tail(rs.cell_iter.v))]
         IN  IF cell.variant # "InteriorTableCell"
             THEN [state |-> rs1, result |-> [tag |-> "Panic"], reads |-> reads]
             ELSE IF ~PageExists(pages, cell.left_child_page)
             THEN [state |-> rs1, result |-> [tag |-> "Panic"],
                   reads |-> Append(reads, cell.left_child_page)]
             ELSE RecordsNext(pages,
                              [rs1 EXCEPT !.record_iter = Some(pages[cell.left_child_page].cells)],
                              Append(reads, cell.left_child_page))
    ELSE RecordsNext(pages, [rs EXCEPT !.flag = TRUE], reads)

(***************************************************************************)
(* Well-formed table B-trees: a tree is a leaf holding rows, or an         *)
(* interior node over two or more subtrees; the last subtree is the        *)
(* right-most child and every other one hangs off a cell whose key is the  *)
(* largest row_id beneath it.                                              *)
(***************************************************************************)
MaxRows == 3
MaxDepth == 2

Str_a == <<97>>                  \* "a"
StrId == <<105, 100>>            \* "id"
StrName == <<110, 97, 109, 101>> \* "name"

Text(s) == RecordFormat("String", 0, s)
Integer8(n) == RecordFormat("Integer8", n, <<>>)

\* the decoded columns a row may hold: a NULL first column (the row id alias),
\* a stored first column with a NULL after it, and NULLs only
RowValues == {<<Null, Text(Str_a)>>, <<Integer8(7), Null>>, <<Null, Null>>}

\* the ways to cut a sequence into consecutive non-empty parts
RECURSIVE Cuts(_)
Cuts(s) ==
    IF s = <<>> THEN {<<>>}
    ELSE UNION {{<<SubSeq(s, 1, k)>> \o rest : rest \in Cuts(SubSeq(s, k + 1, Len(s)))} :
                k \in 1..Len(s)}

RECURSIVE Trees(_, _)
RECURSIVE Forests(_, _)
\* one tree of depth at most d over each part
Forests(parts, d) ==
    IF parts = <<>> THEN {<<>>}
    ELSE {<<t>> \o f : t \in Trees(Head(parts), d), f \in Forests(Tail(parts), d)}

Trees(rows, d) ==
    {[leaf |-> TRUE, rows |-> rows]}
    \cup (IF d = 0 THEN {}
          ELSE UNION {{[leaf |-> FALSE, kids |-> f] : f \in Forests(parts, d - 1)} :
                      parts \in {c \in Cuts(rows) : Len(c) >= 2}})

RECURSIVE MaxRowId(_)
MaxRowId(t) ==
    IF t.leaf THEN t.rows[Len(t.rows)].row_id ELSE MaxRowId(t.kids[Len(t.kids)])

\* the pages of a tree, its root on page n and its subtrees on the pages after it
RECURSIVE Layout(_, _)
RECURSIVE LayoutKids(_, _, _, _, _)
LayoutKids(kids, i, next, pages, roots) ==
    IF i > Len(kids) THEN [pages |-> pages, next |-> next, roots |-> roots]
    ELSE LET l == Layout(kids[i], next)
         IN  LayoutKids(kids, i + 1, l.next, pages @@ l.pages, Append(roots, next))

Layout(t, n) ==
    IF t.leaf
    THEN [pages |-> (n :> [page_type |-> "LeafTablePage",
                           right_most_pointer |-> 0,
                           cells |-> [i \in 1..Len(t.rows) |->
                                        [variant |-> "LeafTableCell",
                                         row_id |-> t.rows[i].row_id,
                                         values |-> t.rows[i].values]]]),
          next |-> n + 1]
    ELSE LET k == LayoutKids(t.kids, 1, n + 1, <<>>, <<>>)
         IN  [pages |-> (n :> [page_type |-> "InteriorTablePage",
                               right_most_pointer |-> k.roots[Len(t.kids)],
                               cells |-> [i \in 1..(Len(t.kids) - 1) |->
                                            [variant |-> "InteriorTableCell",
                                             left_child_page |-> k.roots[i],
                                             row_id |-> MaxRowId(t.kids[i])]]])
                        @@ k.pages,
              next |-> k.next]

(***************************************************************************)
(* SpecTable: Records::new on the root page of a well-formed tree of up to *)
(* MaxRows rows and MaxDepth interior levels, then calls of next(), up to  *)
(* MaxEndCalls of them after it has returned None.                         *)
(***************************************************************************)
MaxEndCalls == 1
FirstPage == 2

InitTable ==
    /\ IdleUnits
    /\ IdleVarint /\ IdleRecord /\ IdlePage /\ IdleDriver /\ IdleIndex /\ IdleParser
    /\ root_page = FirstPage
    /\ \E n \in 0..MaxRows :
         \E vals \in [1..n -> RowValues] :
           \E t \in Trees([i \in 1..n |-> [row_id |-> i, values |-> vals[i]]], MaxDepth) :
             db = Layout(t, FirstPage).pages
    /\ \E names \in {None, Some(<<StrId, StrName>>)} :
         records = [RecordsNew(db[root_page]) EXCEPT !.column_names = names]
    /\ yielded = <<>>
    /\ status = "running"
    /\ page_reads = <<root_page>>
    /\ end_calls = 0

\* a call of next() on an iterator that starts over from the root page once
\* it has signalled the end
CallNextRestarts ==
    /\ status = "running" \/ (status = "done" /\ end_calls < MaxEndCalls)
    /\ LET r == RecordsNext(db,
                            IF status = "done"
                            THEN [RecordsNew(db[root_page])
                                    EXCEPT !.column_names = records.column_names]
                            ELSE records,
                            IF status = "done" THEN <<root_page>> ELSE <<>>)
       IN  /\ records' = r.state
           /\ page_reads' = page_reads \o r.reads
           /\ yielded' = IF r.result.tag = "Some" THEN Append(yielded, r.result.v) ELSE yielded
           /\ status' = CASE r.result.tag = "Panic" -> "panic"
                          [] r.result.tag = "None" -> "done"
                          [] OTHER -> status
           /\ end_calls' = IF status = "done" THEN end_calls + 1 ELSE end_calls
    /\ UNCHANGED <<unitVars, parserVars, db, root_page, varintVars, recordVars, pageVars, driverVars, indexVars>>

\* one call of Records::next by the consumer of the iterator
CallNext ==
    /\ status = "running" \/ (status = "done" /\ end_calls < MaxEndCalls)
    /\ LET r == RecordsNext(db, records, <<>>)
       IN  /\ records' = r.state
           /\ page_reads' = page_reads \o r.reads
           /\ yielded' = IF r.result.tag = "Some" THEN Append(yielded, r.result.v) ELSE yielded
           /\ status' = CASE r.result.tag = "Panic" -> "panic"
                          [] r.result.tag = "None" -> "done"
                          [] OTHER -> status
           /\ end_calls' = IF status = "done" THEN end_calls + 1 ELSE end_calls
    /\ UNCHANGED <<unitVars, parserVars, db, root_page, varintVars, recordVars, pageVars, driverVars, indexVars>>

NextTable == CallNext

SpecTable == InitTable /\ [][NextTable]_vars

\* every leaf-table cell beneath page n, in key order: the left children in
\* cell order, then the right-most child
RECURSIVE LeafCellsBelow(_, _)
RECURSIVE LeafCellsOfKids(_, _, _)
LeafCellsOfKids(pages, cells, i) ==
    IF i > Len(cells) THEN <<>>
    ELSE LeafCellsBelow(pages, cells[i].left_child_page) \o LeafCellsOfKids(pages, cells, i + 1)

LeafCellsBelow(pages, n) ==
    IF pages[n].page_type = "LeafTablePage" THEN pages[n].cells
    ELSE LeafCellsOfKids(pages, pages[n].cells, 1)
         \o LeafCellsBelow(pages, pages[n].right_most_pointer)

RowIds(s) == [i \in 1..Len(s) |-> s[i].row_id]

StrictlyAscending(s) == \A i \in 1..(Len(s) - 1) : s[i] < s[i + 1]

\* C1: enumerating a table B-tree from its root yields every leaf-table cell
\* beneath the root, each exactly once, in strictly ascending row_id order.
C1_EnumeratesAllLeafCells ==
    status \in {"done", "panic"} =>
        /\ RowIds(yielded) = RowIds(LeafCellsBelow(db, root_page))
        /\ StrictlyAscending(RowIds(yielded))

\* the decoded columns of the leaf cell with the given row id
CellValues(pages, n, row_id) ==
    LET cells == LeafCellsBelow(pages, n)
    IN  cells[CHOOSE i \in 1..Len(cells) : cells[i].row_id = row_id].values

\* C5: an emitted row presents the cell's row_id as an integer in column 0
\* when the cell's first decoded column is NULL; a first column that is not
\* NULL, and a NULL in any other column, are left as decoded.
C5_RowIdAlias ==
    \A k \in 1..Len(yielded) :
        LET rec == yielded[k]
            vals == CellValues(db, root_page, rec.row_id)
        IN  /\ Len(rec.columns) = Len(vals)
            /\ \A i \in 1..Len(vals) :
                  rec.columns[i].value =
                      IF i = 1 /\ vals[1] = Null THEN Integer64(rec.row_id) ELSE vals[i]

\* a row with a NULL first column and one with a NULL second column were emitted
C5_Witness ==
    /\ \E k \in 1..Len(yielded) :
          /\ CellValues(db, root_page, yielded[k].row_id) = <<Null, Null>>
          /\ yielded[k].columns[1].value = Integer64(yielded[k].row_id)
    /\ \E k \in 1..Len(yielded) :
          CellValues(db, root_page, yielded[k].row_id)[1] # Null

\* how often page number n was handed to read_page
ReadCount(n) == Cardinality({k \in 1..Len(page_reads) : page_reads[k] = n})

\* C19: on an interior table page, once the left child of every cell has been
\* enumerated, the iterator reads the page's right-most child exactly once
\* before it signals the end, and yields every row of the right-most subtree.
C19_RightMostChildVisited ==
    (status = "done" /\ db[root_page].page_type = "InteriorTablePage") =>
        /\ ReadCount(db[root_page].right_most_pointer) = 1
        /\ \A c \in {LeafCellsBelow(db, db[root_page].right_most_pointer)[i] :
                        i \in 1..Len(LeafCellsBelow(db, db[root_page].right_most_pointer))} :
              \E k \in 1..Len(yielded) : yielded[k].row_id = c.row_id

\* the interior pages next() read as the left child of a cell of the root
InteriorChildrenRead ==
    IF db[root_page].page_type # "InteriorTablePage" THEN {}
    ELSE {db[root_page].cells[k].left_child_page : k \in 1..Len(db[root_page].cells)}
         \cap {n \in DOMAIN db : db[n].page_type = "InteriorTablePage" /\ ReadCount(n) > 0}

\* C20: when the child page reached from an interior-table cell is itself an
\* interior page, the iterator descends into it and yields the leaf cells
\* beneath it; the interior child causes no fatal failure.
C20_InteriorChildDescended ==
    \A n \in InteriorChildrenRead :
        /\ status # "panic"
        /\ status = "done" =>
              \A i \in 1..Len(LeafCellsBelow(db, n)) :
                  \E k \in 1..Len(yielded) :
                      yielded[k].row_id = LeafCellsBelow(db, n)[i].row_id

(***************************************************************************)
(* Tokenizer  (tokenizer.rs).  The input is a string of ASCII characters;  *)
(* index counts characters from 0 as in the code.                          *)
(***************************************************************************)
IsNumeric(c) == c \in 48..57
IsAlphabetic(c) == c \in 65..90 \/ c \in 97..122
IsAlphanumeric(c) == IsNumeric(c) \/ IsAlphabetic(c)
IsWhitespace(c) == c \in {32, 10, 9}         \* " \n\t".contains(c)

ToLowerChar(c) == IF c \in 65..90 THEN c + 32 ELSE c
ToLowercase(s) == [i \in 1..Len(s) |-> ToLowerChar(s[i])]

Token(type, n, s) == [type |-> type, n |-> n, s |-> s]

\* Tokenizer::get_char: the character at index, if any
HasChar(input, index) == index < Len(input)
CharAt(input, index) == input[index + 1]

\* the while-let loops of get_token that advance index_iter over a run
RECURSIVE ScanNumeric(_, _)
ScanNumeric(input, index_iter) ==
    IF HasChar(input, index_iter) /\ IsNumeric(CharAt(input, index_iter))
    THEN ScanNumeric(input, index_iter + 1) ELSE index_iter

RECURSIVE ScanIdent(_, _)
ScanIdent(input, index_iter) ==
    IF HasChar(input, index_iter)
       /\ (IsAlphanumeric(CharAt(input, index_iter)) \/ CharAt(input, index_iter) = 95)
    THEN ScanIdent(input, index_iter + 1) ELSE index_iter

RECURSIVE ScanSame(_, _, _)
ScanSame(input, ch, index_iter) ==
    IF HasChar(input, index_iter) /\ CharAt(input, index_iter) = ch
    THEN ScanSame(input, ch, index_iter + 1) ELSE index_iter

\* the loop of the quote arm: a doubled delimiter is skipped, a single one ends
\* the token, the end of the input leaves the loop
RECURSIVE ScanQuoted(_, _, _)
ScanQuoted(input, c, index_iter) ==
    IF ~HasChar(input, index_iter) THEN index_iter
    ELSE IF CharAt(input, index_iter) = c
    THEN IF HasChar(input, index_iter + 1) /\ CharAt(input, index_iter + 1) = c
         THEN ScanQuoted(input, c, index_iter + 2)
         ELSE index_iter + 1
    ELSE ScanQuoted(input, c, index_iter + 1)

\* str::parse::<i64> on a run of ASCII digits: the value, or -1 when it does
\* not fit an i64 (more than 19 digits never fit; shorter runs are computed)
RECURSIVE DigitsValue(_)
DigitsValue(s) ==
    IF s = <<>> THEN 0 ELSE 10 * DigitsValue(SubSeq(s, 1, Len(s) - 1)) + (s[Len(s)] - 48)

RECURSIVE StripZeros(_)
StripZeros(s) == IF s # <<>> /\ Head(s) = 48 THEN StripZeros(Tail(s)) ELSE s

ParseI64(s) == IF Len(StripZeros(s)) > 19 THEN -1 ELSE DigitsValue(StripZeros(s))

\* Tokenizer::get_token(index): the token (None at the end of the input, Panic
\* when an unwrap or a slice fails) and the index after it
RECURSIVE GetToken(_, _)
GetToken(input, index) ==
    IF ~HasChar(input, index) THEN [token |-> None, index |-> index + 1]
    ELSE LET c == CharAt(input, index)
         IN  CASE IsNumeric(c) ->
                    LET index_iter == ScanNumeric(input, index + 1)
                        number == ParseI64(Slice(input, index, index_iter))
                    IN  IF number < 0 THEN [token |-> [tag |-> "Panic"], index |-> index_iter]
                        ELSE [token |-> Some(Token("Number", number, <<>>)), index |-> index_iter]
               [] IsAlphabetic(c) ->
                    LET index_iter == ScanIdent(input, index + 1)
                    IN  [token |-> Some(Token("Text", 0, Slice(input, index, index_iter))),
                         index |-> index_iter]
               [] c = 39 \/ c = 34 ->
                    LET index_iter == ScanQuoted(input, c, index + 1)
                    IN  IF ~SliceOk(input, index + 1, index_iter - 1)
                        THEN [token |-> [tag |-> "Panic"], index |-> index_iter]
                        ELSE [token |-> Some(Token("String", 0,
                                                   Slice(input, index + 1, index_iter - 1))),
                              index |-> index_iter]
               [] IsWhitespace(c) -> GetToken(input, ScanSame(input, c, index + 1))
               [] OTHER -> [token |-> Some(Token("Punctuation", 0, <<c>>)), index |-> index + 1]

\* Tokenizer::new
TokenizerNew(input) == [input |-> input, index |-> 0]

\* Tokenizer::peek: the next token, the cursor unchanged
Peek(tk) == GetToken(tk.input, tk.index).token

\* Tokenizer::next: the next token and the tokenizer after it; r is what
\* get_token(self.index) returned
Advance(tk, r) == [token |-> r.token, tk |-> [tk EXCEPT !.index = r.index]]

TokNext(tk) == Advance(tk, GetToken(tk.input, tk.index))

\* Tokenizer::remaining: &self.input[self.index..]
RemainingOk(tk) == tk.index <= Len(tk.input)
Remaining(tk) == Drop(tk.input, tk.index)

\* the checks of Tokenizer::tag on the token next() returned: "Ok", "Err" or "Panic"
TagMatch(t, tag) ==
    IF t.tag = "Panic" THEN "Panic"
    ELSE IF t.tag = "None" THEN "Err"
    ELSE CASE t.v.type = "Text" ->
                 IF ToLowercase(t.v.s) # ToLowercase(tag) THEN "Err" ELSE "Ok"
           [] t.v.type = "Punctuation" ->
                 IF Len(tag) # 1 \/ t.v.s # ToLowercase(tag) THEN "Err" ELSE "Ok"
           [] OTHER -> "Err"

TagOf(r, tag) == [tag |-> TagMatch(r.token, tag), tk |-> r.tk]

\* Tokenizer::tag: its result and the tokenizer after it
Tag(tk, tag) == TagOf(TokNext(tk), tag)

\* Tokenizer::take_while with the predicate of the CREATE statement parsers:
\* the token is neither ',' nor ')'
NotCommaNorClose(t) == ~(t.type = "Punctuation" /\ (t.s = <<44>> \/ t.s = <<41>>))

RECURSIVE TakeWhileLoop(_, _, _)
\* one round of the while let: r is what get_token(index) returned
TakeWhileStep(input, index, result, r) ==
    IF r.token.tag = "Panic" THEN [tag |-> "Panic"]
    ELSE IF r.token.tag = "None" \/ ~NotCommaNorClose(r.token.v)
    THEN [tag |-> "Ok", tokens |-> result, index |-> index]
    ELSE TakeWhileLoop(input, r.index, Append(result, r.token.v))

TakeWhileLoop(input, index, result) ==
    TakeWhileStep(input, index, result, GetToken(input, index))

TakeWhileEnd(tk, r) ==
    IF r.tag = "Panic" THEN [tag |-> "Panic"]
    ELSE [tag |-> "Ok", tokens |-> r.tokens, tk |-> [tk EXCEPT !.index = r.index]]

TakeWhile(tk) == TakeWhileEnd(tk, TakeWhileLoop(tk.input, tk.index, <<>>))

(***************************************************************************)
(* SpecTokenizer: Tokenizer::new on a string of up to MaxInputLen          *)
(* characters, then calls of next() until it returns None or panics.       *)
(***************************************************************************)
MaxInputLen == 6

\* the two quote characters, a letter and a blank
TokChars == {39, 34, 97, 32}

InitTokenizer ==
    /\ IdleUnits
    /\ IdleVarint /\ IdleRecord /\ IdlePage /\ IdleTable /\ IdleDriver /\ IdleIndex
    /\ \E n \in 0..MaxInputLen :
         \E input \in [1..n -> TokChars] :
           tokenizer = TokenizerNew(input)
    /\ tokens = <<>>
    /\ sql_words = <<>> /\ parsed = None /\ mapped_statement = None

\* one call of Tokenizer::next by the consumer; tokens keeps what it returned
\* and the index it left
CallTokNext ==
    /\ IF tokens = <<>> THEN TRUE ELSE tokens[Len(tokens)].token.tag = "Some"
    /\ \E r \in {TokNext(tokenizer)} :
         /\ tokenizer' = r.tk
         /\ tokens' = Append(tokens, [token |-> r.token, index |-> r.tk.index])
    /\ UNCHANGED <<unitVars, sql_words, parsed, mapped_statement, varintVars, recordVars, pageVars,
                   tableVars, driverVars, indexVars>>

NextTokenizer == CallTokNext

SpecTokenizer == InitTokenizer /\ [][NextTokenizer]_vars

\* the text of the quoted string whose opening delimiter d is before index i
\* (1-based) of s: a doubled delimiter stands for one, a single one ends it
RECURSIVE QuotedText(_, _, _)
QuotedText(s, d, i) ==
    IF i > Len(s) THEN <<>>
    ELSE IF s[i] = d
    THEN IF i < Len(s) /\ s[i + 1] = d THEN <<d>> \o QuotedText(s, d, i + 2) ELSE <<>>
    ELSE <<s[i]>> \o QuotedText(s, d, i + 1)

\* the index (1-based) of the first undoubled delimiter d from index i on, or 0
RECURSIVE ClosingQuote(_, _, _)
ClosingQuote(s, d, i) ==
    IF i > Len(s) THEN 0
    ELSE IF s[i] = d
    THEN IF i < Len(s) /\ s[i + 1] = d THEN ClosingQuote(s, d, i + 2) ELSE i
    ELSE ClosingQuote(s, d, i + 1)

\* C17: a quoted string token ends at the first undoubled closing delimiter,
\* and its text holds one delimiter character for every doubled delimiter
\* inside the quotes ('a''a' is the text a'a).
C17_DoubledDelimiterIsLiteral ==
    \A d \in {39, 34} :
        (/\ tokens # <<>>
         /\ tokenizer.input # <<>> /\ tokenizer.input[1] = d
         /\ ClosingQuote(tokenizer.input, d, 2) # 0) =>
            /\ tokens[1].token = Some(Token("String", 0, QuotedText(tokenizer.input, d, 2)))
            /\ tokens[1].index = ClosingQuote(tokenizer.input, d, 2)

(***************************************************************************)
(* SqlStatement::new and SqlWhereClause::new  (main.rs 643-697, 750-788;   *)
(* sql_handler.rs 14-68, 123-161)                                          *)
(***************************************************************************)
StrSelect == <<115, 101, 108, 101, 99, 116>>    \* "select"
StrFrom == <<102, 114, 111, 109>>    \* "from"
StrCount == <<99, 111, 117, 110, 116>>    \* "count"
StrWhere == <<119, 104, 101, 114, 101>>    \* "where"
StrCreate == <<67, 82, 69, 65, 84, 69>>    \* "CREATE"
StrTable == <<84, 65, 66, 76, 69>>    \* "TABLE"
StrOpen == <<40>>    \* "("
StrClose == <<41>>    \* ")"
StrComma == <<44>>    \* ","
StrStar == <<42>>    \* "*"
StrEquals == <<61>>    \* "="

ColumnVariant(variant, name) == [variant |-> variant, name |-> name]
Count == ColumnVariant("Count", <<>>)
EveryColumn == ColumnVariant("EveryColumn", <<>>)
Column(name) == ColumnVariant("Column", name)

IsPunct(t, s) == t.type = "Punctuation" /\ t.s = s

\* the "count" arm: tag("("), one token of any kind, tag(")")
CountClose(close) ==
    IF close.tag # "Ok" THEN [tag |-> close.tag] ELSE [tag |-> "Ok", tk |-> close.tk]

CountInner(inner) ==
    IF inner.token.tag = "Panic" THEN [tag |-> "Panic"]
    ELSE CountClose(Tag(inner.tk, StrClose))

CountOpen(open) ==
    IF open.tag # "Ok" THEN [tag |-> open.tag] ELSE CountInner(TokNext(open.tk))

ParseCount(tk) == CountOpen(Tag(tk, StrOpen))

\* the projection loop of SqlStatement::new, up to the FROM keyword
RECURSIVE ParseColumns(_, _)
ColumnsAfterCount(c, column_variants) ==
    IF c.tag # "Ok" THEN [tag |-> c.tag]
    ELSE ParseColumns(c.tk, Append(column_variants, Count))

\* one round of the loop: r is what tokenizer.next() returned
ColumnsStep(r, column_variants) ==
    IF r.token.tag = "Panic" THEN [tag |-> "Panic"]
    ELSE IF r.token.tag = "None" THEN [tag |-> "Err"]
    ELSE CASE r.token.v.type = "Text" ->
                 IF ToLowercase(r.token.v.s) = StrFrom
                 THEN [tag |-> "Ok", column_variants |-> column_variants, tk |-> r.tk]
                 ELSE IF ToLowercase(r.token.v.s) = StrCount
                 THEN ColumnsAfterCount(ParseCount(r.tk), column_variants)
                 ELSE ParseColumns(r.tk, Append(column_variants, Column(r.token.v.s)))
           [] IsPunct(r.token.v, StrComma) -> ParseColumns(r.tk, column_variants)
           [] IsPunct(r.token.v, StrStar) ->
                 ParseColumns(r.tk, Append(column_variants, EveryColumn))
           [] OTHER -> [tag |-> "Err"]

ParseColumns(tk, column_variants) == ColumnsStep(TokNext(tk), column_variants)

\* the loop of SqlWhereClause::new of main.rs: one `column = value` per round,
\* and nothing may follow the value
RECURSIVE ParseWhereColumns(_, _)
\* p is what the peek() after the value returned
WhereRest(column, value, p, columns) ==
    IF p.tag = "Panic" THEN [tag |-> "Panic"]
    ELSE IF p.tag = "Some" THEN [tag |-> "Err"]
    ELSE ParseWhereColumns(value.tk,
             Append(columns, [column |-> column.token.v.s, value |-> value.token.v]))

WhereValue(column, value, columns) ==
    IF value.token.tag = "Panic" THEN [tag |-> "Panic"]
    ELSE IF value.token.tag = "None" THEN [tag |-> "Err"]
    ELSE WhereRest(column, value, Peek(value.tk), columns)

WhereOperator(column, operator, columns) ==
    IF operator.token.tag = "Panic" THEN [tag |-> "Panic"]
    ELSE IF operator.token.tag = "None" \/ ~IsPunct(operator.token.v, StrEquals)
    THEN [tag |-> "Err"]
    ELSE WhereValue(column, TokNext(operator.tk), columns)

WhereColumn(column, columns) ==
    IF column.token.v.type # "Text" THEN [tag |-> "Err"]
    ELSE WhereOperator(column, TokNext(column.tk), columns)

\* p is what the peek() at the top of the loop returned
WherePeek(tk, p, columns) ==
    IF p.tag = "Panic" THEN [tag |-> "Panic"]
    ELSE IF p.tag = "None" THEN [tag |-> "Ok", columns |-> columns]
    ELSE WhereColumn(TokNext(tk), columns)

ParseWhereColumns(tk, columns) == WherePeek(tk, Peek(tk), columns)

\* SqlWhereClause::new(sql)
WhereClauseOf(c) ==
    IF c.tag # "Ok" THEN [tag |-> c.tag]
    ELSE [tag |-> "Ok", clause |-> [columns |-> c.columns]]

WhereAfterTag(w) ==
    IF w.tag # "Ok" THEN [tag |-> w.tag] ELSE WhereClauseOf(ParseWhereColumns(w.tk, <<>>))

SqlWhereClauseNew(sql) == WhereAfterTag(Tag(TokenizerNew(sql), StrWhere))

\* SqlStatement::new(sql)
Statement(cols, table, where_clause) ==
    [tag |-> "Ok",
     statement |-> [column_variants |-> cols.column_variants,
                    table_name |-> table.token.v.s,
                    where_clause |-> where_clause]]

StatementOf(cols, table, w) ==
    IF w.tag # "Ok" THEN [tag |-> w.tag] ELSE Statement(cols, table, Some(w.clause))

\* p is what the peek() after the table name returned
StatementWhere(cols, table, p) ==
    IF p.tag = "Panic" THEN [tag |-> "Panic"]
    ELSE IF p.tag = "None" THEN Statement(cols, table, None)
    ELSE StatementOf(cols, table, SqlWhereClauseNew(Remaining(table.tk)))

StatementTable(cols, table) ==
    IF table.token.tag = "Panic" THEN [tag |-> "Panic"]
    ELSE IF table.token.tag = "None" \/ table.token.v.type # "Text" THEN [tag |-> "Err"]
    ELSE StatementWhere(cols, table, Peek(table.tk))

StatementColumns(cols) ==
    IF cols.tag # "Ok" THEN [tag |-> cols.tag] ELSE StatementTable(cols, TokNext(cols.tk))

StatementSelect(s) ==
    IF s.tag # "Ok" THEN [tag |-> s.tag] ELSE StatementColumns(ParseColumns(s.tk, <<>>))

SqlStatementNew(sql) == StatementSelect(Tag(TokenizerNew(sql), StrSelect))

(***************************************************************************)
(* SchemaRecord  (main.rs 549-634)                                         *)
(***************************************************************************)
\* impl From<Record> for SchemaRecord: the five columns must be TEXT, TEXT,
\* TEXT, an Integer8/16/24/48/64 and TEXT; anything else panics.  The model
\* keeps rootpage within 0..2^31-1, where `as u32` changes nothing.
SchemaRecordFrom(record) ==
    LET c == record.columns
    IN  IF /\ Len(c) >= 5
           /\ c[1].value.kind = "String"
           /\ c[2].value.kind = "String"
           /\ c[3].value.kind = "String"
           /\ c[4].value.kind \in {"Integer8", "Integer16", "Integer24", "Integer48", "Integer64"}
           /\ c[5].value.kind = "String"
        THEN [tag |-> "Ok",
              schema_record |-> [type |-> c[1].value.b,
                                 name |-> c[2].value.b,
                                 tbl_name |-> c[3].value.b,
                                 rootpage |-> c[4].value.i,
                                 sql |-> c[5].value.b]]
        ELSE [tag |-> "Panic"]

\* the loop of column_names: the first token of each column specification
RECURSIVE ColumnNamesLoop(_, _)
\* nx is what the tokenizer.next() after a column specification returned
ColumnNamesNext(nx, names) ==
    IF nx.token.tag = "Panic" THEN [tag |-> "Panic"]
    ELSE IF nx.token.tag = "Some" /\ IsPunct(nx.token.v, StrClose)
    THEN [tag |-> "Ok", names |-> names]
    ELSE ColumnNamesLoop(nx.tk, names)

\* tw is what take_while returned
ColumnNamesStep(tw, result) ==
    IF tw.tag = "Panic" THEN [tag |-> "Panic"]
    ELSE IF tw.tokens = <<>> THEN [tag |-> "Panic"]     \* tokens[0]
    ELSE IF tw.tokens[1].type # "Text" THEN [tag |-> "Err"]
    ELSE ColumnNamesNext(TokNext(tw.tk), Append(result, tw.tokens[1].s))

ColumnNamesLoop(tk, result) == ColumnNamesStep(TakeWhile(tk), result)

\* SchemaRecord::column_names
ColumnNamesOpen(open) ==
    IF open.tag # "Ok" THEN [tag |-> open.tag] ELSE ColumnNamesLoop(open.tk, <<>>)

ColumnNamesName(schema_record, name) ==
    IF name.token.tag = "Panic" THEN [tag |-> "Panic"]
    ELSE IF name.token.tag = "None" THEN [tag |-> "Err"]
    ELSE IF name.token.v.type \notin {"Text", "String"} THEN [tag |-> "Err"]
    ELSE IF name.token.v.s # schema_record.name THEN [tag |-> "Err"]
    ELSE ColumnNamesOpen(Tag(name.tk, StrOpen))

ColumnNamesTable(schema_record, table) ==
    IF table.tag # "Ok" THEN [tag |-> table.tag]
    ELSE ColumnNamesName(schema_record, TokNext(table.tk))

ColumnNamesCreate(schema_record, create) ==
    IF create.tag # "Ok" THEN [tag |-> create.tag]
    ELSE ColumnNamesTable(schema_record, Tag(create.tk, StrTable))

ColumnNames(schema_record) ==
    ColumnNamesCreate(schema_record, Tag(TokenizerNew(schema_record.sql), StrCreate))

InSeq(x, s) == \E i \in 1..Len(s) : s[i] = x

\* SqlStatement::validate (main.rs 699-724) with SqlWhereClause::validate
\* (790-801), given what schema_record.column_names() returns
ValidateNames(statement, column_names) ==
    IF column_names.tag # "Ok" THEN column_names.tag
    ELSE IF \E i \in 1..Len(statement.column_variants) :
               /\ statement.column_variants[i].variant = "Column"
               /\ ~InSeq(statement.column_variants[i].name, column_names.names)
    THEN "Err"
    ELSE IF /\ statement.where_clause # None
            /\ \E i \in 1..Len(statement.where_clause.v.columns) :
                  ~InSeq(statement.where_clause.v.columns[i].column, column_names.names)
    THEN "Err"
    ELSE "Ok"

Validate(statement, schema_record) == ValidateNames(statement, ColumnNames(schema_record))

(***************************************************************************)
(* Schema and main  (main.rs 819-923)                                      *)
(***************************************************************************)
\* the iterator run to its end, as collect() and the for loop drive it
RECURSIVE Collect(_, _, _)
Collect(pages, rs, acc) ==
    LET r == RecordsNext(pages, rs, <<>>)
    IN  IF r.result.tag = "Panic" THEN [tag |-> "Panic"]
        ELSE IF r.result.tag = "None" THEN [tag |-> "Ok", items |-> acc]
        ELSE Collect(pages, r.state, Append(acc, r.result.v))

RECURSIVE SchemaRecordsFrom(_, _)
SchemaRecordsFrom(items, acc) ==
    IF items = <<>> THEN [tag |-> "Ok", records |-> acc]
    ELSE LET s == SchemaRecordFrom(Head(items))
         IN  IF s.tag # "Ok" THEN [tag |-> "Panic"]
             ELSE SchemaRecordsFrom(Tail(items), Append(acc, s.schema_record))

\* BTreePage::read_header of main.rs (481-489) knows the two table page types
TablePageOk(b_page) == b_page.page_type \in {"InteriorTablePage", "LeafTablePage"}

\* Schema::new: the rows of page 1 as schema records
SchemaNew(pages) ==
    IF ~PageExists(pages, 1) \/ ~TablePageOk(pages[1]) THEN [tag |-> "Err"]
    ELSE LET rows == Collect(pages, RecordsNew(pages[1]), <<>>)
         IN  IF rows.tag # "Ok" THEN [tag |-> "Panic"]
             ELSE SchemaRecordsFrom(rows.items, <<>>)

\* Schema::tables: an iterator over schema_table.records
SchemaTables(schema_table) == schema_table

\* tables().find(|t| t.name == table_name): the index of the first, or 0
FindTable(schema_table, table_name) ==
    LET tables == SchemaTables(schema_table)
    IN  IF \E i \in 1..Len(tables) : tables[i].name = table_name
        THEN CHOOSE i \in 1..Len(tables) :
                /\ tables[i].name = table_name
                /\ \A j \in 1..(i - 1) : tables[j].name # table_name
        ELSE 0

\* Schema::records (main.rs 899-918): the iterator for a statement, and
\* the page it read
RecordsNamed(pages, table, statement, names) ==
    IF names.tag # "Ok" THEN [tag |-> names.tag, error |-> "named", reads |-> <<table.rootpage>>]
    ELSE [tag |-> "Ok",
          reads |-> <<table.rootpage>>,
          records |-> [RecordsNew(pages[table.rootpage]) EXCEPT
                          !.column_names = Some(names.names),
                          !.sql_where_clause = statement.where_clause]]

RecordsOfTable(pages, table, statement, valid) ==
    IF valid # "Ok" THEN [tag |-> valid, error |-> "validate", reads |-> <<>>]
    ELSE IF ~PageExists(pages, table.rootpage)
    THEN [tag |-> "Err", error |-> "read_page", reads |-> <<table.rootpage>>]
    ELSE IF ~TablePageOk(pages[table.rootpage])
    THEN [tag |-> "Err", error |-> "Invalid page type", reads |-> <<table.rootpage>>]
    ELSE RecordsNamed(pages, table, statement, ColumnNames(table))

RecordsFound(pages, tables, statement, k) ==
    IF k = 0 THEN [tag |-> "Err", error |-> "Table not found", reads |-> <<>>]
    ELSE RecordsOfTable(pages, tables[k], statement, Validate(statement, tables[k]))

SchemaRecords(pages, schema_table, statement) ==
    RecordsFound(pages, SchemaTables(schema_table), statement,
                 FindTable(schema_table, statement.table_name))

\* i64 and usize Display
RECURSIVE NatToStr(_)
NatToStr(n) == IF n < 10 THEN <<48 + n>> ELSE NatToStr(n \div 10) \o <<48 + (n % 10)>>

IntToStr(n) == IF n < 0 THEN <<45>> \o NatToStr(-n) ELSE NatToStr(n)

\* Vec<u8> Debug: "[1, 2]"
RECURSIVE BytesDebugItems(_)
BytesDebugItems(b) ==
    IF b = <<>> THEN <<>>
    ELSE IF Len(b) = 1 THEN NatToStr(b[1])
    ELSE NatToStr(b[1]) \o <<44, 32>> \o BytesDebugItems(Tail(b))

\* impl fmt::Display for RecordFormat (main.rs 170-187); the model holds no
\* Float64 value in a row, whose decimal form is not modelled
FormatValue(value) ==
    CASE value.kind = "NULL" -> StrNULL
      [] value.kind \in {"Integer8", "Integer16", "Integer24", "Integer32",
                         "Integer48", "Integer64"} -> IntToStr(value.i)
      [] value.kind = "Integer0" -> <<48>>
      [] value.kind = "Integer1" -> <<49>>
      [] value.kind = "Blob" -> <<91>> \o BytesDebugItems(value.b) \o <<93>>
      [] value.kind = "String" -> value.b

Bar == 124      \* '|'

\* str::trim_end_matches('|')
RECURSIVE TrimEndMatches(_, _)
TrimEndMatches(s, c) ==
    IF s # <<>> /\ s[Len(s)] = c THEN TrimEndMatches(SubSeq(s, 1, Len(s) - 1), c) ELSE s

\* the strings one column variant writes for a record, each followed by '|'
\* in the line; "panic" for Count and for a name the record does not have
FieldsOf(c, record) ==
    CASE c.variant = "Column" ->
            LET k == FindColumn(record.columns, c.name)
            IN  IF k = 0 THEN [tag |-> "Panic"]
                ELSE [tag |-> "Ok", fields |-> <<FormatValue(record.columns[k].value)>>]
      [] c.variant = "EveryColumn" ->
            [tag |-> "Ok",
             fields |-> [i \in 1..Len(record.columns) |-> FormatValue(record.columns[i].value)]]
      [] OTHER -> [tag |-> "Panic"]

\* the inner loop over column_variants of main's row loop
RECURSIVE RowFields(_, _, _, _)
RowFields(column_variants, i, record, acc) ==
    IF i > Len(column_variants) THEN [tag |-> "Ok", fields |-> acc]
    ELSE LET f == FieldsOf(column_variants[i], record)
         IN  IF f.tag # "Ok" THEN [tag |-> "Panic"]
             ELSE RowFields(column_variants, i + 1, record, acc \o f.fields)

\* write!(result, "{}|", value) for each field, in order
RECURSIVE WriteFields(_)
WriteFields(fields) ==
    IF fields = <<>> THEN <<>> ELSE Head(fields) \o <<Bar>> \o WriteFields(Tail(fields))

\* the line println! prints for the fields of one row
RowLine(fields) == TrimEndMatches(WriteFields(fields), Bar)

(***************************************************************************)
(* SpecDriver: main on a database file whose page 1 holds the schema rows  *)
(* of a table t(id, name), optionally followed by an index on t, a second  *)
(* table u(x) or a view v; t holds up to MaxDriverRows rows.               *)
(***************************************************************************)
MaxDriverRows == 2

StrTypeTable == <<116, 97, 98, 108, 101>>
    \* "table"
StrTypeIndex == <<105, 110, 100, 101, 120>>
    \* "index"
Str_t == <<116>>
    \* "t"
Str_u == <<117>>
    \* "u"
StrIdx == <<105, 100, 120>>
    \* "idx"
SqlCreateT == <<67, 82, 69, 65, 84, 69, 32, 84, 65, 66, 76, 69, 32, 116, 32, 40, 105, 100, 32, 105, 110, 116, 101, 103, 101, 114, 32, 112, 114, 105, 109, 97, 114, 121, 32, 107, 101, 121, 44, 32, 110, 97, 109, 101, 32, 116, 101, 120, 116, 41>>
    \* "CREATE TABLE t (id integer primary key, name text)"
SqlCreateU == <<67, 82, 69, 65, 84, 69, 32, 84, 65, 66, 76, 69, 32, 117, 32, 40, 120, 32, 116, 101, 120, 116, 41>>
    \* "CREATE TABLE u (x text)"
SqlCreateIdx == <<67, 82, 69, 65, 84, 69, 32, 73, 78, 68, 69, 88, 32, 105, 100, 120, 32, 111, 110, 32, 116, 32, 40, 110, 97, 109, 101, 41>>
    \* "CREATE INDEX idx on t (name)"
CmdDbInfo == <<46, 100, 98, 105, 110, 102, 111>>
    \* ".dbinfo"
CmdTables == <<46, 116, 97, 98, 108, 101, 115>>
    \* ".tables"
CmdStar == <<83, 69, 76, 69, 67, 84, 32, 42, 32, 70, 82, 79, 77, 32, 116>>
    \* "SELECT * FROM t"
CmdName == <<83, 69, 76, 69, 67, 84, 32, 110, 97, 109, 101, 32, 70, 82, 79, 77, 32, 116>>
    \* "SELECT name FROM t"
CmdIdName == <<115, 101, 108, 101, 99, 116, 32, 105, 100, 44, 32, 110, 97, 109, 101, 32, 102, 114, 111, 109, 32, 116>>
    \* "select id, name from t"
CmdNameId == <<83, 69, 76, 69, 67, 84, 32, 110, 97, 109, 101, 44, 32, 105, 100, 32, 70, 82, 79, 77, 32, 116>>
    \* "SELECT name, id FROM t"
CmdCount == <<83, 69, 76, 69, 67, 84, 32, 67, 79, 85, 78, 84, 40, 42, 41, 32, 70, 82, 79, 77, 32, 116>>
    \* "SELECT COUNT(*) FROM t"
CmdCountName == <<83, 69, 76, 69, 67, 84, 32, 67, 79, 85, 78, 84, 40, 42, 41, 44, 32, 110, 97, 109, 101, 32, 70, 82, 79, 77, 32, 116>>
    \* "SELECT COUNT(*), name FROM t"
CmdWhere == <<83, 69, 76, 69, 67, 84, 32, 105, 100, 44, 32, 110, 97, 109, 101, 32, 70, 82, 79, 77, 32, 116, 32, 87, 72, 69, 82, 69, 32, 110, 97, 109, 101, 32, 61, 32, 39, 97, 39>>
    \* "SELECT id, name FROM t WHERE name = 'a'"
CmdWhere12 == <<83, 69, 76, 69, 67, 84, 32, 105, 100, 44, 32, 110, 97, 109, 101, 32, 70, 82, 79, 77, 32, 116, 32, 87, 72, 69, 82, 69, 32, 110, 97, 109, 101, 32, 61, 32, 49, 50>>
    \* "SELECT id, name FROM t WHERE name = 12"
CmdNoTable == <<83, 69, 76, 69, 67, 84, 32, 42, 32, 70, 82, 79, 77, 32, 110, 111, 115, 117, 99, 104>>
    \* "SELECT * FROM nosuch"
CmdNoColumn == <<83, 69, 76, 69, 67, 84, 32, 110, 111, 115, 117, 99, 104, 32, 70, 82, 79, 77, 32, 116>>
    \* "SELECT nosuch FROM t"
CmdStarU == <<83, 69, 76, 69, 67, 84, 32, 42, 32, 70, 82, 79, 77, 32, 117>>
    \* "SELECT * FROM u"
CmdIndex == <<83, 69, 76, 69, 67, 84, 32, 42, 32, 70, 82, 79, 77, 32, 105, 100, 120>>
    \* "SELECT * FROM idx"
CmdBogus == <<98, 111, 103, 117, 115>>
    \* "bogus"
StrPageSize == <<100, 97, 116, 97, 98, 97, 115, 101, 32, 112, 97, 103, 101, 32, 115, 105, 122, 101, 58, 32>>
    \* "database page size: "
StrNumTables == <<110, 117, 109, 98, 101, 114, 32, 111, 102, 32, 116, 97, 98, 108, 101, 115, 58, 32>>
    \* "number of tables: "
Str_a_bar == <<97, 124>>
    \* "a|"
Str_12 == <<49, 50>>
    \* "12"

PageSizes == {512, 4096}

Commands ==
    {CmdDbInfo, CmdTables, CmdStar, CmdName, CmdIdName, CmdNameId, CmdCount,
     CmdCountName, CmdWhere, CmdWhere12, CmdNoTable, CmdNoColumn, CmdStarU, CmdIndex, CmdBogus}

\* the decoded columns of a sqlite_schema row
SchemaRow(type, name, tbl_name, rootpage, sql) ==
    <<Text(type), Text(name), Text(tbl_name), Integer8(rootpage), Text(sql)>>

RowT == SchemaRow(StrTypeTable, Str_t, Str_t, 2, SqlCreateT)
RowIdx == SchemaRow(StrTypeIndex, StrIdx, Str_t, 3, SqlCreateIdx)
RowU == SchemaRow(StrTypeTable, Str_u, Str_u, 4, SqlCreateU)

StrTypeView == <<118, 105, 101, 119>>
    \* "view"
Str_v == <<118>>
    \* "v"
SqlCreateV == <<67, 82, 69, 65, 84, 69, 32, 86, 73, 69, 87, 32, 118, 32, 65, 83, 32, 83, 69, 76, 69, 67, 84, 32, 105, 100, 32, 70, 82, 79, 77, 32, 116>>
    \* "CREATE VIEW v AS SELECT id FROM t"

\* a view: its rootpage is 0, which the file stores as the constant-0 serial
\* type 8
RowV ==
    <<Text(StrTypeView), Text(Str_v), Text(Str_v), RecordFormat("Integer0", 0, <<>>),
      Text(SqlCreateV)>>
\* the table t with its rootpage stored as a 4-byte integer
RowT32 ==
    <<Text(StrTypeTable), Text(Str_t), Text(Str_t), RecordFormat("Integer32", 2, <<>>),
      Text(SqlCreateT)>>

SchemaContents ==
    {<<RowT>>, <<RowT, RowIdx>>, <<RowT, RowIdx, RowU>>, <<RowT, RowU>>, <<RowIdx, RowT>>,
     <<RowT, RowV>>, <<RowT32>>}

\* what the name column of t may hold
NameValues == {Text(Str_a), Text(<<>>), Text(Str_a_bar), Text(Str_12), Integer8(12)}

LeafPage(rows) ==
    [page_type |-> "LeafTablePage",
     right_most_pointer |-> 0,
     cells |-> [i \in 1..Len(rows) |->
                  [variant |-> "LeafTableCell", row_id |-> i, values |-> rows[i]]]]

\* the page of an index, which BTreePage::read_header of main.rs rejects
IndexPage == [page_type |-> "LeafIndexPage", right_most_pointer |-> 0, cells |-> <<>>]

InitDriver ==
    /\ IdleUnits
    /\ IdleVarint /\ IdleRecord /\ IdlePage /\ IdleIndex /\ IdleParser
    /\ command \in Commands
    /\ page_size \in PageSizes
    /\ \E rows \in SchemaContents :
         \E n \in 0..MaxDriverRows :
           \E names \in [1..n -> NameValues] :
             db = (1 :> LeafPage(rows))
                  @@ (2 :> LeafPage([i \in 1..n |-> <<Null, names[i]>>]))
                  @@ (3 :> IndexPage)
                  @@ (4 :> LeafPage(<<<<Text(Str_a)>>>>))
    /\ root_page = 0 /\ records = None /\ yielded = <<>> /\ status = "idle"
    /\ page_reads = <<>> /\ end_calls = 0
    /\ schema = None /\ sql_statement = None
    /\ stdout = <<>> /\ written = <<>>
    /\ pc = "start" /\ error = "none"

PcOf(tag) == CASE tag = "Ok" -> "loaded" [] tag = "Err" -> "exit_err" [] OTHER -> "panic"

\* main, line 828: Schema::new(&args[1])?
LoadSchema ==
    /\ pc = "start"
    /\ schema' = SchemaNew(db)
    /\ pc' = PcOf(schema'.tag)
    /\ error' = IF schema'.tag = "Err" THEN "Schema::new" ELSE error
    /\ page_reads' = <<1>>
    /\ UNCHANGED <<unitVars, parserVars, db, root_page, records, yielded, status, end_calls,
                   command, page_size, sql_statement, stdout, written,
                   varintVars, recordVars, pageVars, indexVars>>

\* main, lines 831-834
DbInfo ==
    /\ pc = "loaded" /\ command = CmdDbInfo
    /\ stdout' = <<StrPageSize \o IntToStr(page_size),
                   StrNumTables \o IntToStr(Len(SchemaTables(schema.records)))>>
    /\ pc' = "exit_ok"
    /\ UNCHANGED <<unitVars, parserVars, tableVars, command, error, page_size, schema, sql_statement, written,
                   varintVars, recordVars, pageVars, indexVars>>

\* main, lines 835-839
Tables ==
    /\ pc = "loaded" /\ command = CmdTables
    /\ stdout' = [i \in 1..Len(SchemaTables(schema.records)) |->
                     SchemaTables(schema.records)[i].name]
    /\ pc' = "exit_ok"
    /\ UNCHANGED <<unitVars, parserVars, tableVars, command, error, page_size, schema, sql_statement, written,
                   varintVars, recordVars, pageVars, indexVars>>

\* main, lines 841-842: SqlStatement::new(sql)? and schema.records(&sql_statement)?
PrepareSql ==
    /\ pc = "loaded" /\ command \notin {CmdDbInfo, CmdTables}
    /\ sql_statement' = SqlStatementNew(command)
    /\ \E rs \in {IF sql_statement'.tag = "Ok"
                  THEN SchemaRecords(db, schema.records, sql_statement'.statement)
                  ELSE [tag |-> sql_statement'.tag, error |-> "SqlStatement::new",
                        reads |-> <<>>]} :
           /\ records' = IF rs.tag = "Ok" THEN rs.records ELSE None
           /\ error' = IF rs.tag = "Err" THEN rs.error ELSE error
           /\ page_reads' = page_reads \o rs.reads
           /\ root_page' = IF rs.reads # <<>> THEN rs.reads[1] ELSE root_page
           /\ pc' = CASE rs.tag = "Err" -> "exit_err"
                      [] rs.tag = "Panic" -> "panic"
                      [] sql_statement'.statement.column_variants = <<Count>> -> "count"
                      [] OTHER -> "rows"
    /\ UNCHANGED <<unitVars, parserVars, db, yielded, status, end_calls, command, page_size, schema,
                   stdout, written, varintVars, recordVars, pageVars, indexVars>>

\* main, lines 844-849: println!("{}", records.count())
PrintCount ==
    /\ pc = "count"
    /\ LET rows == Collect(db, records, <<>>)
       IN  /\ pc' = IF rows.tag = "Ok" THEN "exit_ok" ELSE "panic"
           /\ stdout' = IF rows.tag = "Ok" THEN Append(stdout, IntToStr(Len(rows.items)))
                        ELSE stdout
           /\ yielded' = IF rows.tag = "Ok" THEN rows.items ELSE yielded
    /\ records' = [records EXCEPT !.flag = TRUE]
    /\ UNCHANGED <<unitVars, parserVars, db, root_page, status, page_reads, end_calls, command, error, page_size,
                   schema, sql_statement, written, varintVars, recordVars, pageVars, indexVars>>

\* main, lines 851-868: one turn of the for loop over records
PrintRow ==
    /\ pc = "rows"
    /\ LET r == RecordsNext(db, records, <<>>)
           f == IF r.result.tag = "Some"
                THEN RowFields(sql_statement.statement.column_variants, 1, r.result.v, <<>>)
                ELSE [tag |-> r.result.tag]
       IN  /\ records' = r.state
           /\ page_reads' = page_reads \o r.reads
           /\ yielded' = IF r.result.tag = "Some" THEN Append(yielded, r.result.v) ELSE yielded
           /\ pc' = CASE f.tag = "None" -> "exit_ok"
                      [] f.tag = "Panic" -> "panic"
                      [] OTHER -> "rows"
           /\ stdout' = IF f.tag = "Ok" THEN Append(stdout, RowLine(f.fields)) ELSE stdout
           /\ written' = IF f.tag = "Ok" THEN Append(written, f.fields) ELSE written
    /\ UNCHANGED <<unitVars, parserVars, db, root_page, status, end_calls, command, error, page_size, schema,
                   sql_statement, varintVars, recordVars, pageVars, indexVars>>

NextDriver == LoadSchema \/ DbInfo \/ Tables \/ PrepareSql \/ PrintCount \/ PrintRow

SpecDriver == InitDriver /\ [][NextDriver]_vars

\* the sqlite_schema rows of the file whose type column is "table", in the
\* order page 1 stores them
TableRows == SelectSeq(db[1].cells, LAMBDA c : c.values[1] = Text(StrTypeTable))

\* C3: `.dbinfo` prints the page size and, as `number of tables`, the number of
\* sqlite_schema rows of type "table"; index rows are not counted.
C3_DbInfoCountsTables ==
    (pc = "exit_ok" /\ command = CmdDbInfo) =>
        stdout = <<StrPageSize \o IntToStr(page_size),
                   StrNumTables \o IntToStr(Len(TableRows))>>

\* C4: `.tables` prints one line per sqlite_schema row of type "table", holding
\* its name, in schema order, and no line for an index row.
C4_TablesListsTables ==
    (pc = "exit_ok" /\ command = CmdTables) =>
        stdout = [i \in 1..Len(TableRows) |-> TableRows[i].values[2].b]

\* C14: a SELECT whose FROM identifier is the name of no table of the schema
\* fails with the error `Table not found`, before any page of a table is read
\* and before any row is printed.
C14_UnknownTableFails ==
    (/\ sql_statement # None /\ sql_statement.tag = "Ok"
     /\ \A i \in 1..Len(TableRows) :
           TableRows[i].values[2].b # sql_statement.statement.table_name) =>
        /\ pc = "exit_err"
        /\ error = "Table not found"
        /\ page_reads = <<1>>
        /\ stdout = <<>>

\* main got past SqlStatement::new and Schema::records: the SELECT is accepted
Accepted ==
    /\ pc \in {"rows", "count", "exit_ok", "panic"}
    /\ sql_statement # None /\ sql_statement.tag = "Ok"
    /\ records # None

HasVariant(column_variants, variant) ==
    \E i \in 1..Len(column_variants) : column_variants[i].variant = variant

\* C6: for an accepted SELECT every output row is as wide as the table for `*`,
\* as wide as the projection list for named columns, and there is one row of
\* one value when the projection contains COUNT; formatting rows never fails.
C6_ProjectionShape ==
    Accepted =>
        LET cv == sql_statement.statement.column_variants
        IN  /\ pc # "panic"
            /\ HasVariant(cv, "Count") =>
                  /\ written = <<>>
                  /\ pc = "exit_ok" => Len(stdout) = 1 /\ ~InSeq(Bar, stdout[1])
            /\ cv = <<EveryColumn>> =>
                  \A k \in 1..Len(written) : Len(written[k]) = Len(records.column_names.v)
            /\ (\A i \in 1..Len(cv) : cv[i].variant = "Column") =>
                  \A k \in 1..Len(written) : Len(written[k]) = Len(cv)

\* the fields joined by '|': k fields, k - 1 separators
RECURSIVE Join(_)
Join(fields) ==
    IF fields = <<>> THEN <<>>
    ELSE IF Len(fields) = 1 THEN fields[1]
    ELSE Head(fields) \o <<Bar>> \o Join(Tail(fields))

\* C7: every row line is the string forms of the selected columns joined by
\* '|', whatever the last value is.
C7_RowsJoinedByBar ==
    (pc \in {"rows", "exit_ok"} /\ written # <<>>) =>
        \A k \in 1..Len(written) : stdout[k] = Join(written[k])

(***************************************************************************)
(* The planner of sql_handler.rs and record_handler.rs: the WHERE clause   *)
(* with string values, the column lists of CREATE TABLE and CREATE INDEX,  *)
(* SqlWhereClause::map and MappedSqlWhereClause::matches / keys.           *)
(***************************************************************************)
StrIndex == <<73, 78, 68, 69, 88>>
    \* "INDEX"
StrOn == <<79, 78>>
    \* "ON"

\* impl From<Token> for String (tokenizer.rs 159-168)
StringFromToken(token) == IF token.type = "Number" THEN IntToStr(token.n) ELSE token.s

\* impl From<&RecordFormat> for String (record_handler.rs 367-384); no
\* Float64 value is held by a row of the model
StringFromRecordFormat(value) ==
    CASE value.kind = "NULL" -> StrNULL
      [] value.kind \in {"Integer8", "Integer16", "Integer24", "Integer32",
                         "Integer48", "Integer64"} -> IntToStr(value.i)
      [] value.kind = "Integer0" -> <<48>>
      [] value.kind = "Integer1" -> <<49>>
      [] value.kind = "Blob" -> <<91>> \o BytesDebugItems(value.b) \o <<93>>
      [] value.kind = "String" -> value.b

\* impl From<RecordFormat> for usize (record_handler.rs 329-346): -1 for a panic
UsizeFrom(value) ==
    CASE value.kind \in {"Integer8", "Integer16", "Integer24", "Integer32",
                         "Integer48", "Integer64"} -> value.i
      [] value.kind = "Integer0" -> 0
      [] value.kind = "Integer1" -> 1
      [] OTHER -> -1

\* SqlWhereClause::new of sql_handler.rs (123-161): as in main.rs, with
\* value: String::from(value)
WhereColumnStrings(c) == [column |-> c.column, value |-> StringFromToken(c.value)]

WhereStrings(w) ==
    IF w.tag # "Ok" THEN w
    ELSE [tag |-> "Ok",
          clause |-> [columns |-> [i \in 1..Len(w.clause.columns) |->
                                      WhereColumnStrings(w.clause.columns[i])]]]

SqlHandlerWhereClauseNew(sql) == WhereStrings(SqlWhereClauseNew(sql))

\* the loop shared by table_column_names and index_columns (record_handler.rs
\* 84-103, 150-169): the first token of each column specification
RECURSIVE ColumnListLoop(_, _)
ColumnListNext(nx, names) ==
    IF nx.token.tag = "Panic" THEN [tag |-> "Panic"]
    ELSE IF nx.token.tag = "Some" /\ IsPunct(nx.token.v, StrClose)
    THEN [tag |-> "Ok", names |-> names]
    ELSE ColumnListLoop(nx.tk, names)

ColumnListStep(tw, result) ==
    IF tw.tag = "Panic" THEN [tag |-> "Panic"]
    ELSE IF Len(tw.tokens) < 1 THEN [tag |-> "Err"]
    ELSE IF tw.tokens[1].type \notin {"Text", "String"} THEN [tag |-> "Err"]
    ELSE ColumnListNext(TokNext(tw.tk), Append(result, tw.tokens[1].s))

ColumnListLoop(tk, result) == ColumnListStep(TakeWhile(tk), result)

ColumnListOpen(open) ==
    IF open.tag # "Ok" THEN [tag |-> open.tag] ELSE ColumnListLoop(open.tk, <<>>)

\* the match on tokenizer.next() that compares an identifier with a name;
\* then the tag that follows it
NameThenTag(name, expected, tag) ==
    IF name.token.tag = "Panic" THEN [tag |-> "Panic"]
    ELSE IF name.token.tag = "None" THEN [tag |-> "Err"]
    ELSE IF name.token.v.type \notin {"Text", "String"} THEN [tag |-> "Err"]
    ELSE IF name.token.v.s # expected THEN [tag |-> "Err"]
    ELSE Tag(name.tk, tag)

TagThenName(tagged, expected, tag) ==
    IF tagged.tag # "Ok" THEN [tag |-> tagged.tag]
    ELSE NameThenTag(TokNext(tagged.tk), expected, tag)

TagThenTag(tagged, tag) ==
    IF tagged.tag # "Ok" THEN [tag |-> tagged.tag] ELSE Tag(tagged.tk, tag)

\* SchemaRecord::table_column_names (record_handler.rs 59-104)
TableColumnNames(schema_record) ==
    ColumnListOpen(
        TagThenName(TagThenTag(Tag(TokenizerNew(schema_record.sql), StrCreate), StrTable),
                    schema_record.name, StrOpen))

\* SchemaRecord::index_columns (record_handler.rs 106-169)
IndexColumns(schema_record) ==
    ColumnListOpen(
        TagThenName(
            TagThenName(TagThenTag(Tag(TokenizerNew(schema_record.sql), StrCreate), StrIndex),
                        schema_record.name, StrOn),
            schema_record.tbl_name, StrOpen))

\* iter().position(..): the 0-based position of the first match, or -1 for None
Position(s, Test(_)) ==
    IF \E i \in 1..Len(s) : Test(s[i])
    THEN (CHOOSE i \in 1..Len(s) : Test(s[i]) /\ \A j \in 1..(i - 1) : ~Test(s[j])) - 1
    ELSE -1

\* a remove that leaves the vector as it is
RemoveNothing(s, index) == s

\* Vec::remove(index), index 0-based
Remove(s, index) == SubSeq(s, 1, index) \o SubSeq(s, index + 2, Len(s))

\* the first block of map (sql_handler.rs 170-189): every WHERE column with
\* its position among the table's columns
RECURSIVE MapColumns(_, _, _)
MapColumns(where_columns, column_names, columns) ==
    IF where_columns = <<>> THEN [tag |-> "Ok", columns |-> columns]
    ELSE LET position == Position(column_names, LAMBDA n : n = Head(where_columns).column)
         IN  IF position < 0 THEN [tag |-> "Err"]
             ELSE MapColumns(Tail(where_columns), column_names,
                             Append(columns, [column |-> position,
                                              value |-> Head(where_columns).value]))

\* the for_each over the index columns (sql_handler.rs 193-205): a WHERE
\* column on an index column moves from columns to keys
RECURSIVE MapKeys(_, _, _, _)
MapKeys(index_columns, column_names, columns, keys) ==
    IF index_columns = <<>> THEN [tag |-> "Ok", clause |-> [columns |-> columns, keys |-> keys]]
    ELSE LET c == Position(column_names, LAMBDA n : n = Head(index_columns))
             index == Position(columns, LAMBDA cc : cc.column = c)
         IN  IF c < 0 THEN [tag |-> "Panic"]
             ELSE IF index < 0 THEN MapKeys(Tail(index_columns), column_names, columns, keys)
             ELSE MapKeys(Tail(index_columns), column_names,
                          Remove(columns, index), Append(keys, columns[index + 1]))

MapWithIndex(columns, column_names, index_schema, index_columns) ==
    IF columns.tag # "Ok" THEN [tag |-> columns.tag]
    ELSE IF index_schema = None
    THEN [tag |-> "Ok", clause |-> [columns |-> columns.columns, keys |-> <<>>]]
    ELSE IF index_columns.tag # "Ok" THEN [tag |-> index_columns.tag]
    ELSE MapKeys(index_columns.names, column_names.names, columns.columns, <<>>)

MapWithNames(clause, column_names, index_schema) ==
    IF column_names.tag # "Ok" THEN [tag |-> column_names.tag]
    ELSE MapWithIndex(MapColumns(clause.columns, column_names.names, <<>>),
                      column_names, index_schema,
                      IF index_schema = None THEN None ELSE IndexColumns(index_schema.v))

\* SqlWhereClause::map (sql_handler.rs 163-208)
SqlWhereClauseMap(clause, table_schema, index_schema) ==
    MapWithNames(clause, TableColumnNames(table_schema), index_schema)

\* MappedSqlWhereClause::matches (sql_handler.rs 230-245) on the values of a record
Matches(mapped, values) ==
    \A k \in 1..Len(mapped.columns) :
        StringFromRecordFormat(values[mapped.columns[k].column + 1]) = mapped.columns[k].value

\* MappedSqlWhereClause::keys (sql_handler.rs 247-255)
Keys(mapped) == [k \in 1..Len(mapped.keys) |-> mapped.keys[k].value]

(***************************************************************************)
(* The traversal layer the planner drives, as spec.md 4.6 describes it:    *)
(* the table iterator with its right-most child, its get(row_id) fast      *)
(* path, and the index iterator.                                           *)
(***************************************************************************)
\* `<` on strings: lexicographic on the characters
RECURSIVE StrLess(_, _)
StrLess(a, b) ==
    IF b = <<>> THEN FALSE
    ELSE IF a = <<>> THEN TRUE
    ELSE IF Head(a) # Head(b) THEN Head(a) < Head(b)
    ELSE StrLess(Tail(a), Tail(b))

\* table iterator: every leaf-table cell beneath page n, the left children in
\* cell order and then the right-most child
RECURSIVE TableIter(_, _)
RECURSIVE TableIterCells(_, _, _)
TableIterCells(pages, cells, i) ==
    IF i > Len(cells) THEN <<>>
    ELSE TableIter(pages, cells[i].left_child_page) \o TableIterCells(pages, cells, i + 1)

TableIter(pages, n) ==
    IF pages[n].page_type = "LeafTablePage" THEN pages[n].cells
    ELSE TableIterCells(pages, pages[n].cells, 1) \o TableIter(pages, pages[n].right_most_pointer)

\* get(row_id): an interior cell whose key is less than the target is skipped,
\* and at most the row with the matching id is yielded
RECURSIVE TableGet(_, _, _)
RECURSIVE TableGetCells(_, _, _, _)
TableGetCells(pages, n, i, row_id) ==
    IF i > Len(pages[n].cells) THEN TableGet(pages, pages[n].right_most_pointer, row_id)
    ELSE IF pages[n].cells[i].row_id < row_id THEN TableGetCells(pages, n, i + 1, row_id)
    ELSE TableGet(pages, pages[n].cells[i].left_child_page, row_id)

TableGet(pages, n, row_id) ==
    IF pages[n].page_type = "LeafTablePage"
    THEN SelectSeq(pages[n].cells, LAMBDA c : c.row_id = row_id)
    ELSE TableGetCells(pages, n, 1, row_id)

\* the indexed columns of an index cell against the keys
KeysEqual(values, keys) ==
    \A k \in 1..Len(keys) : StringFromRecordFormat(values[k]) = keys[k]

KeysLess(values, keys) ==
    \A k \in 1..Len(keys) : StrLess(StringFromRecordFormat(values[k]), keys[k])

\* index iterator: the row ids of the leaf-index cells equal to the keys, in
\* the order the index enumerates them; an interior-index cell is skipped when
\* its columns are less than the keys and descended into otherwise; the
\* right-most child is visited last
RECURSIVE IndexIter(_, _, _)
RECURSIVE IndexIterCells(_, _, _, _)
IndexIterCells(pages, n, i, keys) ==
    IF i > Len(pages[n].cells) THEN
        IF pages[n].page_type = "InteriorIndexPage"
        THEN IndexIter(pages, pages[n].right_most_pointer, keys) ELSE <<>>
    ELSE LET cell == pages[n].cells[i]
             here == IF cell.variant = "LeafIndexCell"
                     THEN IF KeysEqual(cell.values, keys)
                          THEN <<UsizeFrom(cell.values[Len(cell.values)])>> ELSE <<>>
                     ELSE IF KeysLess(cell.values, keys) THEN <<>>
                          ELSE IndexIter(pages, cell.left_child_page, keys)
         IN  here \o IndexIterCells(pages, n, i + 1, keys)

IndexIter(pages, n, keys) == IndexIterCells(pages, n, 1, keys)

\* the columns of a row: the decoded values with the row id alias of Record::new
RowOf(cell) ==
    [row_id |-> cell.row_id,
     values |-> [i \in 1..Len(cell.values) |-> RecordNewValue(i - 1, cell.values[i], cell.row_id)]]

RowsOf(cells) == [i \in 1..Len(cells) |-> RowOf(cells[i])]

RECURSIVE JoinRows(_, _, _)
JoinRows(pages, table_root, row_ids) ==
    IF row_ids = <<>> THEN <<>>
    ELSE RowsOf(TableGet(pages, table_root, Head(row_ids)))
         \o JoinRows(pages, table_root, Tail(row_ids))

\* the index-assisted plan: the index iterator over the keys, joined back by
\* row id, then the residual columns
IndexPlan(pages, table_root, idx_root, mapped) ==
    SelectSeq(JoinRows(pages, table_root, IndexIter(pages, idx_root, Keys(mapped))),
              LAMBDA r : Matches(mapped, r.values))

\* the full scan followed by the WHERE filter
FullScanPlan(pages, table_root, mapped) ==
    SelectSeq(RowsOf(TableIter(pages, table_root)), LAMBDA r : Matches(mapped, r.values))

(***************************************************************************)
(* SpecIndex: a table t(id, name) of up to MaxIndexRows rows in a          *)
(* well-formed table B-tree, the index idx on t(name) in a well-formed     *)
(* index B-tree (a leaf, or an interior root whose cells hold entries of   *)
(* their own between the children), and a WHERE clause on name.            *)
(***************************************************************************)
MaxIndexRows == 3

WhereName9 == <<119, 104, 101, 114, 101, 32, 110, 97, 109, 101, 32, 61, 32, 57>>
    \* "where name = 9"
WhereName10 == <<87, 72, 69, 82, 69, 32, 110, 97, 109, 101, 32, 61, 32, 49, 48>>
    \* "WHERE name = 10"
WhereNameA == <<119, 104, 101, 114, 101, 32, 110, 97, 109, 101, 32, 61, 32, 39, 97, 39>>
    \* "where name = 'a'"

WhereSqls == {WhereName9, WhereName10, WhereNameA}

TableSchema ==
    [type |-> StrTypeTable, name |-> Str_t, tbl_name |-> Str_t, rootpage |-> 2,
     sql |-> SqlCreateT]

IndexSchema ==
    [type |-> StrTypeIndex, name |-> StrIdx, tbl_name |-> Str_t, rootpage |-> 3,
     sql |-> SqlCreateIdx]

\* what the indexed column may hold, and the order an index keeps them in:
\* integers by value, before text
IndexedValues == {Integer8(9), Integer8(10), Text(Str_a)}

SortKey(value) == IF value.kind = "Integer8" THEN value.i ELSE 1000

\* the entries of the index on column name of the rows, in index order
IndexEntries(rows) ==
    LET n == Len(rows)
        Before(i, j) ==
            \/ SortKey(rows[i].values[2]) < SortKey(rows[j].values[2])
            \/ SortKey(rows[i].values[2]) = SortKey(rows[j].values[2]) /\ i < j
        order == CHOOSE p \in [1..n -> 1..n] :
                    \A a, b \in 1..n : a < b => Before(p[a], p[b])
    IN  [k \in 1..n |-> <<rows[order[k]].values[2], Integer8(rows[order[k]].row_id)>>]

\* the sets of entries an interior root may keep in its own cells: none at
\* either end and no two adjacent, so that every child holds an entry
Separators(n) ==
    {S \in SUBSET (2..(n - 1)) : S # {} /\ \A i \in S : (i + 1) \notin S}

\* the positions of S in ascending order
RECURSIVE Ascending(_)
Ascending(S) ==
    IF S = {} THEN <<>>
    ELSE LET m == CHOOSE x \in S : \A y \in S : x <= y
         IN  <<m>> \o Ascending(S \ {m})

IndexLeaf(entries) ==
    [page_type |-> "LeafIndexPage",
     right_most_pointer |-> 0,
     cells |-> [i \in 1..Len(entries) |-> [variant |-> "LeafIndexCell", values |-> entries[i]]]]

\* the pages of the index: a leaf on page n, or an interior root on page n over
\* leaves on the pages after it
IndexLayout(entries, S, n) ==
    IF S = {} THEN (n :> IndexLeaf(entries))
    ELSE LET seps == Ascending(S)
             from(k) == IF k = 1 THEN 1 ELSE seps[k - 1] + 1
             upto(k) == IF k > Len(seps) THEN Len(entries) ELSE seps[k] - 1
         IN  (n :> [page_type |-> "InteriorIndexPage",
                    right_most_pointer |-> n + Len(seps) + 1,
                    cells |-> [k \in 1..Len(seps) |->
                                 [variant |-> "InteriorIndexCell",
                                  left_child_page |-> n + k,
                                  values |-> entries[seps[k]]]]])
             @@ [p \in (n + 1)..(n + Len(seps) + 1) |->
                    IndexLeaf(SubSeq(entries, from(p - n), upto(p - n)))]

InitIndex ==
    /\ IdleUnits
    /\ IdleVarint /\ IdleRecord /\ IdlePage /\ IdleDriver /\ IdleParser
    /\ root_page = FirstPage
    /\ \E n \in 0..MaxIndexRows :
         \E vals \in [1..n -> IndexedValues] :
           LET rows == [i \in 1..n |-> [row_id |-> i, values |-> <<Null, vals[i]>>]]
           IN  \E tree \in Trees(rows, MaxDepth) :
                 \E S \in {{}} \cup Separators(n) :
                   /\ index_root = Layout(tree, FirstPage).next
                   /\ db = Layout(tree, FirstPage).pages
                           @@ IndexLayout(IndexEntries(rows), S, index_root)
    /\ \E sql \in WhereSqls : sql_where = SqlHandlerWhereClauseNew(sql)
    /\ mapped_where = None
    /\ records = None /\ yielded = <<>> /\ scanned = <<>>
    /\ status = "parsed"
    /\ page_reads = <<>> /\ end_calls = 0

\* SqlStatement::map on the WHERE clause, with the index of the table
MapWhere ==
    /\ status = "parsed"
    /\ mapped_where' = SqlWhereClauseMap(sql_where.clause, TableSchema, Some(IndexSchema))
    /\ status' = IF mapped_where'.tag = "Ok" THEN "mapped" ELSE "failed"
    /\ UNCHANGED <<unitVars, parserVars, db, root_page, records, yielded, page_reads, end_calls,
                   sql_where, index_root, scanned, varintVars, recordVars, pageVars, driverVars>>

\* the rows of the index-assisted plan
RunIndexPlan ==
    /\ status = "mapped"
    /\ yielded' = IndexPlan(db, root_page, index_root, mapped_where.clause)
    /\ status' = "joined"
    /\ UNCHANGED <<unitVars, parserVars, db, root_page, records, page_reads, end_calls,
                   indexVars, varintVars, recordVars, pageVars, driverVars>>

\* the rows of the plan without an index: every WHERE column is a residual
RunFullScan ==
    /\ status = "joined"
    /\ scanned' = FullScanPlan(db, root_page,
                               SqlWhereClauseMap(sql_where.clause, TableSchema, None).clause)
    /\ status' = "compared"
    /\ UNCHANGED <<unitVars, parserVars, db, root_page, records, yielded, page_reads, end_calls,
                   sql_where, index_root, mapped_where, varintVars, recordVars, pageVars,
                   driverVars>>

NextIndex == MapWhere \/ RunIndexPlan \/ RunFullScan

SpecIndex == InitIndex /\ [][NextIndex]_vars

\* how often x occurs in s
Occurrences(s, x) == Cardinality({i \in 1..Len(s) : s[i] = x})

SameMultiset(s, u) ==
    \A x \in {s[i] : i \in 1..Len(s)} \cup {u[i] : i \in 1..Len(u)} :
        Occurrences(s, x) = Occurrences(u, x)

StatementStrings(r) ==
    IF r.tag # "Ok" \/ r.statement.where_clause = None THEN r
    ELSE [r EXCEPT !.statement.where_clause =
             Some([columns |-> [i \in 1..Len(r.statement.where_clause.v.columns) |->
                                   WhereColumnStrings(r.statement.where_clause.v.columns[i])]])]

SqlHandlerStatementNew(sql) == StatementStrings(SqlStatementNew(sql))

MappedColumnVariant(variant, column) == [variant |-> variant, column |-> column]

\* a match of names that ignores the case of the letters
MappedPositionIgnoreCase(column_names, col) ==
    Position(column_names, LAMBDA s : ToLowercase(s) = ToLowercase(col))

\* column_names.iter().position(|s| s == col): 0-based, -1 for None
MappedPosition(column_names, col) == Position(column_names, LAMBDA s : s = col)

\* the for loop over self.column_variants (sql_handler.rs 79-96)
RECURSIVE MapVariants(_, _, _)
MapVariantAt(column_variants, column_names, acc, position) ==
    IF position < 0 THEN [tag |-> "Err"]
    ELSE MapVariants(Tail(column_variants), column_names,
                     Append(acc, MappedColumnVariant("Column", position)))

MapVariants(column_variants, column_names, acc) ==
    IF column_variants = <<>> THEN [tag |-> "Ok", column_variants |-> acc]
    ELSE IF Head(column_variants).variant = "Column"
    THEN MapVariantAt(column_variants, column_names, acc,
                      MappedPosition(column_names, Head(column_variants).name))
    ELSE MapVariants(Tail(column_variants), column_names,
                     Append(acc, MappedColumnVariant(Head(column_variants).variant, 0)))

MappedStatement(variants, where_clause) ==
    [tag |-> "Ok",
     statement |-> [column_variants |-> variants.column_variants,
                    where_clause |-> where_clause]]

MappedStatementOf(variants, w) ==
    IF w.tag # "Ok" THEN [tag |-> w.tag] ELSE MappedStatement(variants, Some(w.clause))

MapStatementWhere(statement, variants, table_schema, index_schema) ==
    IF variants.tag # "Ok" THEN [tag |-> variants.tag]
    ELSE IF statement.where_clause = None THEN MappedStatement(variants, None)
    ELSE MappedStatementOf(variants,
             SqlWhereClauseMap(statement.where_clause.v, table_schema, index_schema))

MapStatementNames(statement, column_names, table_schema, index_schema) ==
    IF column_names.tag # "Ok" THEN [tag |-> column_names.tag]
    ELSE MapStatementWhere(statement,
                           MapVariants(statement.column_variants, column_names.names, <<>>),
                           table_schema, index_schema)

\* SqlStatement::map (sql_handler.rs 70-109)
SqlStatementMap(statement, table_schema, index_schema) ==
    MapStatementNames(statement, TableColumnNames(table_schema), table_schema, index_schema)

(***************************************************************************)
(* SpecSql: SqlStatement::new on `SELECT <projection> FROM t <tail>`, the  *)
(* projection up to MaxProjLen words and the tail a WHERE keyword with up  *)
(* to MaxConjuncts conditions (or one of two malformed tails), then        *)
(* SqlStatement::map against the schema record of t(id, name), with and    *)
(* without the index on name.                                              *)
(***************************************************************************)
MaxProjLen == 3
MaxConjuncts == 2

WordSelect == <<83, 69, 76, 69, 67, 84>>
    \* "SELECT"
WordFrom == <<70, 82, 79, 77>>
    \* "FROM"
WordWhere == <<87, 72, 69, 82, 69>>
    \* "WHERE"
WordCount == <<67, 79, 85, 78, 84, 40, 42, 41>>
    \* "COUNT(*)"
StrNameUpper == <<78, 97, 109, 101>>
    \* "Name"
WordQuotedA == <<39, 97, 39>>
    \* "'a'"
WordOne == <<49>>
    \* "1"

Idents == {StrId, StrName, StrNameUpper}
ProjWords == Idents \cup {StrComma, StrStar, WordCount}

\* the conditions a tail is made of: <ident> = <literal>
Conjuncts == {<<StrName, StrEquals, WordQuotedA>>, <<StrNameUpper, StrEquals, WordOne>>}

RECURSIVE Flatten(_)
Flatten(ss) == IF ss = <<>> THEN <<>> ELSE Head(ss) \o Flatten(Tail(ss))

\* no tail, WHERE with its conditions, a condition without its literal, and
\* a condition without the keyword
SqlTails ==
    {<<>>}
    \cup {<<WordWhere>> \o Flatten(cs) :
             cs \in UNION {[1..n -> Conjuncts] : n \in 0..MaxConjuncts}}
    \cup {<<WordWhere, StrName, StrEquals>>, <<StrName, StrEquals, WordOne>>}

\* the words joined by single blanks
RECURSIVE SqlText(_)
SqlText(words) ==
    IF words = <<>> THEN <<>>
    ELSE IF Len(words) = 1 THEN words[1]
    ELSE Head(words) \o <<32>> \o SqlText(Tail(words))

InitSql ==
    /\ IdleUnits
    /\ IdleVarint /\ IdleRecord /\ IdlePage /\ IdleTable /\ IdleDriver /\ IdleIndex
    /\ tokenizer = None /\ tokens = <<>>
    /\ \E n \in 0..MaxProjLen :
         \E projection \in [1..n -> ProjWords] :
           \E tail \in SqlTails :
             sql_words = <<WordSelect>> \o projection \o <<WordFrom, Str_t>> \o tail
    /\ parsed = None
    /\ mapped_statement = None

\* SqlStatement::new(sql)
ParseSql ==
    /\ parsed = None
    /\ parsed' = SqlHandlerStatementNew(SqlText(sql_words))
    /\ UNCHANGED <<unitVars, tokenizer, tokens, sql_words, mapped_statement, varintVars, recordVars,
                   pageVars, tableVars, driverVars, indexVars>>

\* sql_statement.map(table_schema, index_schema), the index being there or not
MapSql ==
    /\ parsed # None /\ parsed.tag = "Ok"
    /\ mapped_statement = None
    /\ \E index_schema \in {None, Some(IndexSchema)} :
         mapped_statement' = SqlStatementMap(parsed.statement, TableSchema, index_schema)
    /\ UNCHANGED <<unitVars, tokenizer, tokens, sql_words, parsed, varintVars, recordVars,
                   pageVars, tableVars, driverVars, indexVars>>

NextSql == ParseSql \/ MapSql

SpecSql == InitSql /\ [][NextSql]_vars

\* the words between SELECT and FROM, and the words after the table name
FromAt(words) == CHOOSE i \in 1..Len(words) : words[i] = WordFrom
ProjectionOf(words) == SubSeq(words, 2, FromAt(words) - 1)
TailOf(words) == SubSeq(words, FromAt(words) + 2, Len(words))

\* the projection list of the grammar: '*', COUNT '(' <expr> ')', or
\* identifiers separated by single commas
ProjectionFits(projection) ==
    \/ projection = <<StrStar>>
    \/ projection = <<WordCount>>
    \/ /\ Len(projection) % 2 = 1
       /\ \A i \in 1..Len(projection) :
             IF i % 2 = 1 THEN projection[i] \in Idents ELSE projection[i] = StrComma

\* WHERE followed by zero or more <ident> = <literal>
IsConditionList(tail) ==
    /\ tail # <<>> /\ tail[1] = WordWhere
    /\ (Len(tail) - 1) % 3 = 0
    /\ \A k \in 1..((Len(tail) - 1) \div 3) :
          /\ tail[3 * k - 1] \in Idents
          /\ tail[3 * k] = StrEquals
          /\ tail[3 * k + 1] \in {WordQuotedA, WordOne}

\* the text of a literal: a quoted string without its quotes, a number as written
LiteralText(word) == IF word[1] = 39 THEN SubSeq(word, 2, Len(word) - 1) ELSE word

\* one parsed condition per condition of the tail, in order
ConditionsOf(tail) ==
    [k \in 1..((Len(tail) - 1) \div 3) |->
        [column |-> tail[3 * k - 1], value |-> LiteralText(tail[3 * k + 1])]]

\* C11: a WHERE clause that is a list of zero, one or several
\* `<ident> = <literal>` conditions written one after another without AND and
\* ended by the end of the input is accepted, with one parsed condition per
\* condition of the list, in order.
C11_WhereConditionList ==
    (/\ parsed # None
     /\ ProjectionFits(ProjectionOf(sql_words))
     /\ IsConditionList(TailOf(sql_words))) =>
        /\ parsed.tag = "Ok"
        /\ parsed.statement.where_clause =
              Some([columns |-> ConditionsOf(TailOf(sql_words))])

\* the grammar SELECT <projection list> FROM <ident> [WHERE <condition list>]
\* on the words of the model's statements
FitsGrammar(words) ==
    /\ ProjectionFits(ProjectionOf(words))
    /\ TailOf(words) = <<>> \/ IsConditionList(TailOf(words))

\* C12: SqlStatement::new returns a parse error for every SQL string that
\* does not fit the grammar: an empty projection list, identifiers without a
\* comma between them, stray or repeated commas.
C12_RejectsOutsideGrammar ==
    (parsed # None /\ ~FitsGrammar(sql_words)) => parsed.tag = "Err"

\* the columns CREATE TABLE t declares, in order
DeclaredColumns == <<StrId, StrName>>

\* the names the parsed statement projects and the names its WHERE clause tests
ProjectedNames(statement) ==
    {statement.column_variants[i].name :
        i \in {j \in 1..Len(statement.column_variants) :
                  statement.column_variants[j].variant = "Column"}}

WhereNames(statement) ==
    IF statement.where_clause = None THEN {}
    ELSE {statement.where_clause.v.columns[i].column :
             i \in 1..Len(statement.where_clause.v.columns)}

\* the mapped projection names, item by item, the position of the declared
\* column each name is spelled as
ProjectionResolved(column_variants, mapped) ==
    /\ Len(mapped) = Len(column_variants)
    /\ \A i \in 1..Len(column_variants) :
          /\ mapped[i].variant = column_variants[i].variant
          /\ column_variants[i].variant = "Column" =>
                /\ mapped[i].column \in 0..(Len(DeclaredColumns) - 1)
                /\ DeclaredColumns[mapped[i].column + 1] = column_variants[i].name

\* every condition of the WHERE clause is mapped once, as a residual or as a
\* key, to the position of its column, with its value
WhereResolved(where_clause, mapped) ==
    IF where_clause = None THEN mapped = None
    ELSE /\ mapped # None
         /\ Len(mapped.v.columns) + Len(mapped.v.keys) = Len(where_clause.v.columns)
         /\ \A i \in 1..Len(where_clause.v.columns) :
               \E m \in {mapped.v.columns[k] : k \in 1..Len(mapped.v.columns)}
                        \cup {mapped.v.keys[k] : k \in 1..Len(mapped.v.keys)} :
                  /\ m.column \in 0..(Len(DeclaredColumns) - 1)
                  /\ DeclaredColumns[m.column + 1] = where_clause.v.columns[i].column
                  /\ m.value = where_clause.v.columns[i].value

\* C13: mapping a parsed statement against the schema record of the table
\* resolves every projected column name and every WHERE column name to its
\* zero-based position in the table's column list, matching case; if any of
\* them is not a column of the table the result is an error and no mapped
\* statement.
C13_MapResolvesColumns ==
    mapped_statement # None =>
        IF \A name \in ProjectedNames(parsed.statement) \cup WhereNames(parsed.statement) :
              InSeq(name, DeclaredColumns)
        THEN /\ mapped_statement.tag = "Ok"
             /\ ProjectionResolved(parsed.statement.column_variants,
                                   mapped_statement.statement.column_variants)
             /\ WhereResolved(parsed.statement.where_clause,
                              mapped_statement.statement.where_clause)
        ELSE mapped_statement = [tag |-> "Err"]

\* `SELECT name , id FROM t WHERE name = 'a'` was mapped: name to position 1,
\* id to position 0, and the WHERE column to position 1
C13_Witness ==
    /\ mapped_statement # None /\ mapped_statement.tag = "Ok"
    /\ mapped_statement.statement.column_variants =
          <<MappedColumnVariant("Column", 1), MappedColumnVariant("Column", 0)>>
    /\ mapped_statement.statement.where_clause # None
    /\ \E m \in {mapped_statement.statement.where_clause.v.columns[k] :
                    k \in 1..Len(mapped_statement.statement.where_clause.v.columns)}
                \cup {mapped_statement.statement.where_clause.v.keys[k] :
                         k \in 1..Len(mapped_statement.statement.where_clause.v.keys)} :
          m.column = 1

\* the rows of table t (page 2) whose name column prints as the text of the
\* literal of the WHERE clause
RowsPrintingAs(literal) ==
    SelectSeq(db[2].cells, LAMBDA c : FormatValue(c.values[2]) = StringFromToken(literal))

\* C18: during a scan a row satisfies `name = literal` exactly when the
\* printed form of its name column equals the text of the literal, so that
\* the number 12 selects a TEXT value "12" as well as a stored integer 12.
C18_StringFormEquality ==
    (pc = "exit_ok" /\ command \in {CmdWhere, CmdWhere12}) =>
        RowIds(yielded) =
            RowIds(RowsPrintingAs(sql_statement.statement.where_clause.v.columns[1].value))

(***************************************************************************)
(* SpecMap: SqlWhereClause::map (sql_handler.rs 163-208) on a clause of up *)
(* to MaxMapConjuncts conjuncts over the table t(id, name), without an     *)
(* index, with the index on (name) and with an index on (id, name).  The   *)
(* clauses SqlWhereClause::new can build (no conjunct, or one) are among   *)
(* them; map itself takes any vector of conjuncts.                         *)
(***************************************************************************)
MaxMapConjuncts == 2

StrIdx2 == <<105, 100, 120, 50>>
    \* "idx2"
SqlCreateIdx2 == <<67, 82, 69, 65, 84, 69, 32, 73, 78, 68, 69, 88, 32, 105, 100, 120, 50, 32, 111, 110, 32, 116, 32, 40, 105, 100, 44, 32, 110, 97, 109, 101, 41>>
    \* "CREATE INDEX idx2 on t (id, name)"

IndexSchemaIdName ==
    [type |-> StrTypeIndex, name |-> StrIdx2, tbl_name |-> Str_t, rootpage |-> 4,
     sql |-> SqlCreateIdx2]

\* the conjuncts a clause is built of: column = value, the value in string form
MapConjuncts ==
    {[column |-> StrId, value |-> <<49>>],
     [column |-> StrName, value |-> Str_a],
     [column |-> StrName, value |-> <<49>>],
     [column |-> StrNameUpper, value |-> Str_a]}

MapIndexes == {None, Some(IndexSchema), Some(IndexSchemaIdName)}

InitMap ==
    /\ IdleVarint /\ IdleRecord /\ IdlePage /\ IdleTable /\ IdleDriver /\ IdleIndex
    /\ IdleParser /\ IdleFormat /\ IdleColumns /\ IdleSeek
    /\ \E n \in 0..MaxMapConjuncts :
         \E columns \in [1..n -> MapConjuncts] :
           map_clause = [columns |-> columns]
    /\ map_index \in MapIndexes
    /\ map_result = None

\* self.map(table_schema, index_schema)
CallMap ==
    /\ map_result = None
    /\ map_result' = SqlWhereClauseMap(map_clause, TableSchema, map_index)
    /\ UNCHANGED <<map_clause, map_index, formatVars, columnsVars, seekVars, parserVars,
                   varintVars, recordVars, pageVars, tableVars, driverVars, indexVars>>

NextMap == CallMap

SpecMap == InitMap /\ [][NextMap]_vars

\* the conjuncts of the clause with their column positions, in clause order
MappedConjuncts ==
    [i \in 1..Len(map_clause.columns) |->
        [column |-> MappedPosition(DeclaredColumns, map_clause.columns[i].column),
         value |-> map_clause.columns[i].value]]

\* the first conjunct of the clause on the column at the given position
FirstConjunctOn(position) ==
    MappedConjuncts[CHOOSE i \in 1..Len(MappedConjuncts) :
                       /\ MappedConjuncts[i].column = position
                       /\ \A j \in 1..(i - 1) : MappedConjuncts[j].column # position]

\* C21: with an index schema, the keys are the conjuncts on a contiguous
\* prefix of the index's declared columns: key i is the conjunct on the i-th
\* index column, so a clause that constrains only a non-leading index column
\* gives no keys.
C21_KeysAreIndexPrefix ==
    (map_result # None /\ map_result.tag = "Ok" /\ map_index # None) =>
        LET index_columns == IndexColumns(map_index.v).names
            keys == map_result.clause.keys
        IN  /\ Len(keys) <= Len(index_columns)
            /\ \A i \in 1..Len(keys) :
                  /\ keys[i].column = MappedPosition(DeclaredColumns, index_columns[i])
                  /\ keys[i] = FirstConjunctOn(keys[i].column)

\* C27: map puts every conjunct of the clause in exactly one of keys and
\* columns, none lost and none twice; without an index schema keys is empty
\* and columns holds every conjunct in clause order.
C27_ConjunctsPartitioned ==
    (map_result # None /\ map_result.tag = "Ok") =>
        /\ Len(map_result.clause.keys) + Len(map_result.clause.columns)
              = Len(map_clause.columns)
        /\ SameMultiset(map_result.clause.keys \o map_result.clause.columns, MappedConjuncts)
        /\ map_index = None =>
              /\ map_result.clause.keys = <<>>
              /\ map_result.clause.columns = MappedConjuncts

\* a clause of two conjuncts was split by an index into one key and one
\* residual
C27_Witness ==
    /\ map_result # None /\ map_result.tag = "Ok"
    /\ map_index # None
    /\ Len(map_result.clause.keys) = 1
    /\ Len(map_result.clause.columns) = 1

(***************************************************************************)
(* SpecFormat: RecordFormat::new (record_handler.rs 221-297, main.rs       *)
(* 62-138) on an integer serial type and a payload slice that holds the    *)
(* stored bytes of the column and up to MaxFormatTrailing bytes after it.  *)
(***************************************************************************)
MaxFormatTrailing == 1

\* the integer serial types and the number of bytes each stores
IntegerSerialTypes == 1..6
StoredBytes == <<1, 2, 3, 4, 6, 8>>

\* the first stored byte: both signs, and the extremes of each
FirstBytes == {0, 1, 127, 128, 255}
FillBytes == {0, 255}

\* TLC computes in 32 bits: the stored patterns the model decodes are those
\* whose value, read as signed and read as unsigned after the zero padding of
\* RecordFormat::new, stays within that range.  Every pattern of 1 to 3 bytes
\* does; a longer one does when its leading bytes only extend the sign.
Computable(stored) ==
    LET n == Len(stored)
    IN  \/ n <= 3
        \/ n = 4 /\ stored # <<128, 0, 0, 0>>
        \/ n > 4 /\ (\A i \in 1..(n - 4) : stored[i] = 0) /\ stored[n - 3] < 128
        \/ /\ n = 8 /\ (\A i \in 1..4 : stored[i] = 255) /\ stored[5] >= 128
           /\ SubSeq(stored, 5, 8) # <<128, 0, 0, 0>>

InitFormat ==
    /\ IdleVarint /\ IdleRecord /\ IdlePage /\ IdleTable /\ IdleDriver /\ IdleIndex
    /\ IdleParser /\ IdleMap /\ IdleColumns /\ IdleSeek
    /\ serial_type \in IntegerSerialTypes
    /\ \E first \in FirstBytes :
         \E more \in [1..(StoredBytes[serial_type] - 1) -> FillBytes] :
           \E n \in 0..MaxFormatTrailing :
             \E trailing \in [1..n -> FillBytes] :
               /\ Computable(<<first>> \o more)
               /\ column_bytes = <<first>> \o more \o trailing
    /\ record_format = None

\* RecordFormat::new(payload, value)
CallFormatNew ==
    /\ record_format = None
    /\ record_format' = RecordFormatNew(column_bytes, serial_type)
    /\ UNCHANGED <<serial_type, column_bytes, mapVars, columnsVars, seekVars, parserVars,
                   varintVars, recordVars, pageVars, tableVars, driverVars, indexVars>>

NextFormat == CallFormatNew

SpecFormat == InitFormat /\ [][NextFormat]_vars

\* C22: serial types 1 to 6 decode as big-endian signed two's-complement
\* integers of 1, 2, 3, 4, 6 and 8 bytes: the value is the sign-extended
\* integer of the stored bytes, also when the top bit of a 3-byte or 6-byte
\* pattern is set, and exactly the stored bytes are consumed.
C22_SignedIntegerColumns ==
    record_format # None =>
        /\ record_format.tag = "Ok"
        /\ record_format.value.i = BeSigned(SubSeq(column_bytes, 1, StoredBytes[serial_type]))
        /\ record_format.rest = Drop(column_bytes, StoredBytes[serial_type])

(***************************************************************************)
(* SpecColumns: table_column_names of record_handler.rs (59-104) and       *)
(* column_names of main.rs (593-633) on the schema record of a table t     *)
(* whose CREATE TABLE statement lists 1 to MaxColumns column               *)
(* specifications.                                                         *)
(***************************************************************************)
MaxColumns == 3

SqlCreateOpen == <<67, 82, 69, 65, 84, 69, 32, 84, 65, 66, 76, 69, 32, 116, 32, 40>>
    \* "CREATE TABLE t ("
SpecIdKey == <<105, 100, 32, 105, 110, 116, 101, 103, 101, 114, 32, 112, 114, 105, 109, 97, 114, 121, 32, 107, 101, 121>>
    \* "id integer primary key"
SpecNameText == <<110, 97, 109, 101, 32, 116, 101, 120, 116>>
    \* "name text"
SpecVarchar == <<97, 32, 86, 65, 82, 67, 72, 65, 82, 40, 49, 48, 41>>
    \* "a VARCHAR(10)"
SpecBare == <<98>>
    \* "b"

ColumnSpecs == {SpecIdKey, SpecNameText, SpecVarchar, SpecBare}

\* the specifications joined by ", "
RECURSIVE JoinSpecs(_)
JoinSpecs(specs) ==
    IF specs = <<>> THEN <<>>
    ELSE IF Len(specs) = 1 THEN specs[1]
    ELSE specs[1] \o <<44, 32>> \o JoinSpecs(Tail(specs))

InitColumns ==
    /\ IdleVarint /\ IdleRecord /\ IdlePage /\ IdleTable /\ IdleDriver /\ IdleIndex
    /\ IdleParser /\ IdleMap /\ IdleFormat /\ IdleSeek
    /\ \E n \in 1..MaxColumns :
         \E specs \in [1..n -> ColumnSpecs] :
           create_record = [type |-> StrTypeTable, name |-> Str_t, tbl_name |-> Str_t,
                            rootpage |-> 2,
                            sql |-> SqlCreateOpen \o JoinSpecs(specs) \o StrClose]
    /\ names_handler = None
    /\ names_main = None

\* schema_record.table_column_names() of record_handler.rs
CallTableColumnNames ==
    /\ names_handler = None
    /\ names_handler' = TableColumnNames(create_record)
    /\ UNCHANGED <<create_record, names_main, mapVars, formatVars, seekVars, parserVars,
                   varintVars, recordVars, pageVars, tableVars, driverVars, indexVars>>

\* schema_record.column_names() of main.rs
CallColumnNames ==
    /\ names_main = None
    /\ names_main' = ColumnNames(create_record)
    /\ UNCHANGED <<create_record, names_handler, mapVars, formatVars, seekVars, parserVars,
                   varintVars, recordVars, pageVars, tableVars, driverVars, indexVars>>

NextColumns == CallTableColumnNames \/ CallColumnNames

SpecColumns == InitColumns /\ [][NextColumns]_vars

\* the column specifications of a parenthesized body: the text between the
\* commas that stand outside every inner pair of parentheses
RECURSIVE SplitSpecs(_, _, _, _, _)
SplitSpecs(s, i, depth, current, acc) ==
    IF i > Len(s) THEN Append(acc, current)
    ELSE IF s[i] = 44 /\ depth = 0 THEN SplitSpecs(s, i + 1, depth, <<>>, Append(acc, current))
    ELSE SplitSpecs(s, i + 1,
                    IF s[i] = 40 THEN depth + 1 ELSE IF s[i] = 41 THEN depth - 1 ELSE depth,
                    Append(current, s[i]), acc)

\* the first token of a column specification: its leading identifier
RECURSIVE FirstWord(_)
FirstWord(s) ==
    IF s = <<>> THEN <<>>
    ELSE IF IsWhitespace(Head(s)) THEN FirstWord(Tail(s))
    ELSE SubSeq(s, 1, ScanIdent(s, 0))

\* the names the CREATE TABLE statement of create_record declares
DeclaredNames ==
    LET body == SubSeq(create_record.sql, Len(SqlCreateOpen) + 1, Len(create_record.sql) - 1)
        specs == SplitSpecs(body, 1, 0, <<>>, <<>>)
    IN  [i \in 1..Len(specs) |-> FirstWord(specs[i])]

\* C23: for a CREATE TABLE statement whose body is n comma-separated column
\* specifications, the column-name parser returns exactly n names, the first
\* token of each specification in declaration order, also when a
\* specification has a parenthesized type argument such as VARCHAR(10).
C23_ColumnNamesOfCreateTable ==
    /\ names_handler # None =>
          names_handler = [tag |-> "Ok", names |-> DeclaredNames]
    /\ names_main # None =>
          names_main = [tag |-> "Ok", names |-> DeclaredNames]

\* a sqlite_schema row as the file format defines it: type, name and tbl_name
\* are TEXT, rootpage is an integer in any of its encodings, sql is TEXT
IntegerKinds ==
    {"Integer8", "Integer16", "Integer24", "Integer32", "Integer48", "Integer64",
     "Integer0", "Integer1"}

WellFormedSchemaRow(values) ==
    /\ Len(values) = 5
    /\ values[1].kind = "String" /\ values[2].kind = "String" /\ values[3].kind = "String"
    /\ values[4].kind \in IntegerKinds
    /\ values[5].kind = "String"

\* C24: building the schema catalog from page 1 never ends in a fatal
\* failure, and it succeeds when every row is a well-formed sqlite_schema row
\* (of any type, with any integer encoding of rootpage, the constant-0 and
\* constant-1 serial types included).
C24_SchemaCatalogLoads ==
    schema # None =>
        /\ schema.tag # "Panic"
        /\ (\A i \in 1..Len(db[1].cells) : WellFormedSchemaRow(db[1].cells[i].values)) =>
              schema.tag = "Ok"

\* what the bytes of the page say: where its B-tree header starts, its page
\* type, its cell count, its cell content area offset and its i-th cell
\* pointer (i from 1)
HeaderBase == IF page_number = 1 THEN DbHeaderLen ELSE 0
StoredPageType == PageTypeOf(page[HeaderBase + 1])
StoredCellCount == BeUnsigned(Slice(page, HeaderBase + 3, HeaderBase + 5))
StoredContentArea == BeUnsigned(Slice(page, HeaderBase + 5, HeaderBase + 7))
StoredPointer(i) ==
    LET at == HeaderBase + (IF IsInterior(StoredPageType) THEN 12 ELSE 8) + 2 * (i - 1)
    IN  BeUnsigned(Slice(page, at, at + 2))

\* the page is one the claim speaks of: a known page type, and every cell
\* pointer is at or after the cell content area offset and points at a cell
\* that lies within the page
PointersInContent ==
    /\ StoredPageType # "Invalid"
    /\ \A i \in 1..StoredCellCount :
          /\ StoredContentArea <= StoredPointer(i)
          /\ StoredPointer(i) <= Len(page)
          /\ CellOfType(StoredPageType, Drop(page, StoredPointer(i))).tag = "Ok"

\* C25: on page 1 (B-tree header at offset 100) and on any other page
\* (header at offset 0), read_page and cells() give cell_count cells, the
\* i-th decoded from the page bytes that begin at the page-absolute offset
\* stored in the i-th cell pointer, for every cell content area offset that
\* is not larger than the cell pointers.
C25_CellsAtPageAbsoluteOffsets ==
    (b_tree_page # None /\ PointersInContent) =>
        /\ b_tree_page.tag = "Ok"
        /\ page_cells # None =>
              /\ page_cells.tag = "Ok"
              /\ Len(page_cells.cells) = StoredCellCount
              /\ \A i \in 1..StoredCellCount :
                    page_cells.cells[i]
                        = CellOfType(StoredPageType, Drop(page, StoredPointer(i))).cell

(***************************************************************************)
(* SpecSeek: the offset PageReader::read_page seeks to, as tree_handler.rs *)
(* (26-30) and main.rs (943-949) compute it.  TLC computes in 32 bits, so  *)
(* an offset is kept as six base-256 digits, the lowest first.             *)
(***************************************************************************)
MaxPageShift == 20

\* page numbers at the start of the file, and 2^k + 1 for k from 16 up
PageNumbers == {1, 2, 3} \cup {Pow2(k) + 1 : k \in 16..MaxPageShift}
\* values of the 16-bit page_size field
PageSizes16 == {512, 1024, 4096, 32768, 65535}

\* a u32 below 2^31 as four base-256 digits
Limbs4(n) == <<n % 256, (n \div 256) % 256, (n \div 65536) % 256, n \div 16777216>>

\* digits * size, digit by digit with a carry; size is below 2^16, so the
\* last carry takes two digits
RECURSIVE MulLimbs(_, _, _, _, _)
MulLimbs(digits, size, i, carry, acc) ==
    IF i > Len(digits) THEN acc \o <<carry % 256, carry \div 256>>
    ELSE MulLimbs(digits, size, i + 1, (digits[i] * size + carry) \div 256,
                  Append(acc, (digits[i] * size + carry) % 256))

\* the product of a u32 and a u16 in full
WideMul(n, size) == MulLimbs(Limbs4(n), size, 1, 0, <<>>)

\* u32 * u32: a product of 2^32 or more panics in a debug build and keeps its
\* low 32 bits in a release build; the result is then cast to u64
MulU32(product, build) ==
    IF product[5] = 0 /\ product[6] = 0 THEN [tag |-> "Ok", offset |-> product]
    ELSE IF build = "debug" THEN [tag |-> "Panic"]
    ELSE [tag |-> "Ok", offset |-> SubSeq(product, 1, 4) \o <<0, 0>>]

\* tree_handler.rs 29: ((page_number - 1) * self.page_size as u32) as u64
SeekOffsetHandler(n, size, build) == MulU32(WideMul(n - 1, size), build)

\* main.rs 948: (page_num as u64 - 1) * self.page_size as u64
SeekOffsetMain(n, size) == [tag |-> "Ok", offset |-> WideMul(n - 1, size)]

InitSeek ==
    /\ IdleVarint /\ IdleRecord /\ IdlePage /\ IdleTable /\ IdleDriver /\ IdleIndex
    /\ IdleParser /\ IdleMap /\ IdleFormat /\ IdleColumns
    /\ page_num \in PageNumbers
    /\ reader_page_size \in PageSizes16
    /\ seek_handler = None
    /\ seek_main = None

\* read_page of tree_handler.rs, up to its seek
SeekHandler ==
    /\ seek_handler = None
    /\ \E build \in Builds :
         seek_handler' = SeekOffsetHandler(page_num, reader_page_size, build)
    /\ UNCHANGED <<page_num, reader_page_size, seek_main, mapVars, formatVars, columnsVars,
                   parserVars, varintVars, recordVars, pageVars, tableVars, driverVars,
                   indexVars>>

\* read_page of main.rs, up to its seek
SeekMain ==
    /\ seek_main = None
    /\ seek_main' = SeekOffsetMain(page_num, reader_page_size)
    /\ UNCHANGED <<page_num, reader_page_size, seek_handler, mapVars, formatVars, columnsVars,
                   parserVars, varintVars, recordVars, pageVars, tableVars, driverVars,
                   indexVars>>

NextSeek == SeekHandler \/ SeekMain

SpecSeek == InitSeek /\ [][NextSeek]_vars

\* C26: read_page(n) seeks to (n - 1) * page_size for every page number and
\* every 16-bit page size: the computation neither wraps nor overflows, and
\* the two readers compute the same offset.
C26_SeekOffset ==
    /\ seek_handler # None =>
          seek_handler = [tag |-> "Ok", offset |-> WideMul(page_num - 1, reader_page_size)]
    /\ seek_main # None =>
          seek_main = [tag |-> "Ok", offset |-> WideMul(page_num - 1, reader_page_size)]
    /\ (seek_handler # None /\ seek_main # None) => seek_handler = seek_main

\* C28: the table iterator is fused: once next() has returned None, every
\* later call returns None again, yields nothing and reads no page, whatever
\* cells remain unvisited.
C28_FusedIterator ==
    [][status = "done" =>
          /\ status' = "done"
          /\ yielded' = yielded
          /\ page_reads' = page_reads]_vars

\* next() was called again after it had returned None, while rows beneath
\* the root had not been yielded
C28_Witness ==
    /\ status = "done"
    /\ end_calls >= 1
    /\ Len(yielded) < Len(LeafCellsBelow(db, root_page))

\* the index the k-th call of next() started from
IndexBefore(k) == IF k = 1 THEN 0 ELSE tokens[k - 1].index

\* C29: every call of Tokenizer::next completes normally and a call that
\* returns a token moves the cursor forward inside the input, so that finitely
\* many tokens are followed by None; a quoted string that is not terminated
\* (a lone quote included) causes no fatal failure and its token keeps every
\* character after the opening quote.
C29_NextCompletesNormally ==
    /\ \A k \in 1..Len(tokens) :
          /\ tokens[k].token.tag # "Panic"
          /\ tokens[k].token.tag = "Some" =>
                /\ IndexBefore(k) < tokens[k].index
                /\ tokens[k].index <= Len(tokenizer.input)
    /\ \A d \in {39, 34} :
          (/\ tokens # <<>>
           /\ tokenizer.input # <<>> /\ tokenizer.input[1] = d
           /\ ClosingQuote(tokenizer.input, d, 2) = 0) =>
              tokens[1].token = Some(Token("String", 0, QuotedText(tokenizer.input, d, 2)))

(***************************************************************************)
(* SpecCursor: Tokenizer::new on a string of up to MaxCursorLen            *)
(* characters, then peek, next, tag and take_while in any order, also      *)
(* after the input is exhausted; the calls stop once the index is          *)
(* MaxPastEnd past the end of the input.  tokens holds the latest call:    *)
(* its name, the index before it and the tag of what it returned.          *)
(***************************************************************************)
MaxCursorLen == 3
MaxPastEnd == 2

\* a letter, a blank and a comma
CursorChars == {97, 32, 44}
CursorTags == {Str_a, StrComma}

Called(call, before, result) == <<[call |-> call, before |-> before, result |-> result]>>

CursorLive ==
    /\ IF tokens = <<>> THEN TRUE ELSE tokens[1].result # "Panic"
    /\ tokenizer.index < Len(tokenizer.input) + MaxPastEnd

InitCursor ==
    /\ IdleUnits
    /\ IdleVarint /\ IdleRecord /\ IdlePage /\ IdleTable /\ IdleDriver /\ IdleIndex
    /\ \E n \in 0..MaxCursorLen :
         \E input \in [1..n -> CursorChars] :
           tokenizer = TokenizerNew(input)
    /\ tokens = <<>>
    /\ sql_words = <<>> /\ parsed = None /\ mapped_statement = None

CursorPeek ==
    /\ CursorLive
    /\ tokens' = Called("peek", tokenizer.index, Peek(tokenizer).tag)
    /\ UNCHANGED <<unitVars, tokenizer, sql_words, parsed, mapped_statement, varintVars,
                   recordVars, pageVars, tableVars, driverVars, indexVars>>

CursorNext ==
    /\ CursorLive
    /\ \E r \in {TokNext(tokenizer)} :
         /\ tokenizer' = r.tk
         /\ tokens' = Called("next", tokenizer.index, r.token.tag)
    /\ UNCHANGED <<unitVars, sql_words, parsed, mapped_statement, varintVars, recordVars,
                   pageVars, tableVars, driverVars, indexVars>>

CursorTag ==
    /\ CursorLive
    /\ \E tag \in CursorTags :
         \E r \in {Tag(tokenizer, tag)} :
           /\ tokenizer' = r.tk
           /\ tokens' = Called("tag", tokenizer.index, r.tag)
    /\ UNCHANGED <<unitVars, sql_words, parsed, mapped_statement, varintVars, recordVars,
                   pageVars, tableVars, driverVars, indexVars>>

CursorTakeWhile ==
    /\ CursorLive
    /\ \E r \in {TakeWhile(tokenizer)} :
         /\ tokenizer' = IF r.tag = "Panic" THEN tokenizer ELSE r.tk
         /\ tokens' = Called("take_while", tokenizer.index, r.tag)
    /\ UNCHANGED <<unitVars, sql_words, parsed, mapped_statement, varintVars, recordVars,
                   pageVars, tableVars, driverVars, indexVars>>

NextCursor == CursorPeek \/ CursorNext \/ CursorTag \/ CursorTakeWhile

SpecCursor == InitCursor /\ [][NextCursor]_vars

\* C30: after any sequence of peek, next, tag and take_while, also after the
\* input is exhausted, the index is at most the length of the input, so that
\* remaining() is defined; peek leaves the index as it was.
C30_CursorWithinInput ==
    /\ RemainingOk(tokenizer)
    /\ (tokens # <<>> /\ tokens[1].call = "peek") => tokenizer.index = tokens[1].before

=============================================================================
